---- MODULE Spec2Model ----
(***************************************************************************)
(* Event pipeline of the data-service-a / logger-service-b repository:     *)
(*   - EventsConsumer (logger-service-b, events.consumer.ts): the consume  *)
(*     callback with its ack / reject policy, against a broker queue with  *)
(*     a dead-letter exchange;                                             *)
(*   - RabbitMQService (data-service-a, rabbitmq.service.ts): connect,     *)
(*     reconnect and the publishEvent family, against a broker channel     *)
(*     with publisher confirms.                                            *)
(* The broker and the amqplib client are modelled by their documented      *)
(* behaviour; everything else is translated from the TypeScript source.    *)
(***************************************************************************)
EXTENDS Integers, Sequences, FiniteSets, TLC

\* ------------------------------------------------------------------------
\* Bounds of the model
\* ------------------------------------------------------------------------

\* number of distinct messages that reach the logger queue
NumMsgs == 2

\* the broker stops delivering a message after this many deliveries
MaxDeliveries == 4

\* connections the broker accepts from the producer during one run
MaxConns == 1

\* connections the broker accepts while only the connection manager runs
MaxSessions == 2

\* calls of the publish family during one run of the producer
MaxCalls == 1

\* calls of publishEvent that overlap on one channel
MaxInFlight == 2

\* configured RABBITMQ_MAX_RECONNECT_ATTEMPTS (the default is 10)
MaxReconnectAttempts == 2

\* configured RABBITMQ_RECONNECT_DELAY_BASE in ms (the default is 1000)
ReconnectDelayBase == 16000

\* consecutive failed connects of a consumer service that are followed
MaxConsumerAttempts == 3

\* connections the broker accepts where setupExchangeAndQueue() is followed
\* statement by statement
MaxOverlap == 3

\* ------------------------------------------------------------------------
\* EventsConsumer and its queue
\* ------------------------------------------------------------------------

VARIABLES
  ecQueue,     \* ready messages of RABBITMQ_QUEUE, head first: [id, redelivered]
  ecUnacked,   \* deliveries whose callback awaits processEvent: [id, redelivered]
  ecDlq,       \* RABBITMQ_DEAD_LETTER_QUEUE, a sequence of message ids
  ecBody,      \* body of each message, "none" before it is published
  ecLog        \* per message, one record per delivery (history)

ecVars == <<ecQueue, ecUnacked, ecDlq, ecBody, ecLog>>

\* ------------------------------------------------------------------------
\* RabbitMQService (producer): state
\* ------------------------------------------------------------------------

VARIABLES
  started,            \* onModuleInit has run
  useConfirmChannel,  \* RABBITMQ_USE_CONFIRM_CHANNEL, read by the constructor
  connection,         \* this.connection: a connection id, 0 while undefined
  channel,            \* this.channel: a channel id, 0 while undefined
  isConnected,        \* this.isConnected
  isConfirmChannel,   \* this.isConfirmChannel
  reconnectAttempts,  \* this.reconnectAttempts
  timers,             \* pending setTimeout callbacks of reconnect()
  schedule,           \* delays reconnect() has passed to setTimeout since
                      \* isConnected was last set (history)
  connecting,         \* connect() runs suspended in amqp.connect(url)
  runs,               \* connect() runs past amqp.connect: [conn, pc, target,
                      \* step, on]
  conns,              \* per connection id: "unused", "open" or "closed"
  topology,           \* the broker's exchanges, queues and bindings
  chans,              \* per channel: [conn, kind, open, done]; the channel that
                      \* the connect() run of connection c opened has id c
  unconfirmed,        \* per channel: amqplib's list of unconfirmed publishes
  calls,              \* per call of the publish family: its position and result
  msgs,               \* per call: the message it put on the wire, if any
  broker              \* whether the broker can be reached: "up", "down", or
                      \* "back" once an outage is over

VARIABLES
  cm                  \* the connection manager of a consumer service

VARIABLES
  lc,                 \* logs consumer (modules/logs) and the queue it reads
  rs,                 \* RedisTimeSeriesService and the redis keys it writes
  mc,                 \* messaging RabbitMQConsumerService: handlers, deliveries
  hs,                 \* EventsHealthService and the broker entities it checks
  sn                  \* events whose sensitive fields are to be removed

VARIABLES
  su,                 \* a broker component while its startup hook runs
  dv                  \* EventsConsumer's deliveries and the channels they
                      \* were delivered and settled on

VARIABLES
  destroyed           \* RabbitMQService.onModuleDestroy has run

VARIABLES
  qd                  \* the broker's queues and the components declaring them

extVars == <<su, dv, destroyed, qd>>

svcVars == <<lc, rs, mc, hs, sn>>

auxVars == <<svcVars, extVars>>

connVars == <<started, useConfirmChannel, connection, channel, isConnected,
              isConfirmChannel, reconnectAttempts, timers, schedule,
              connecting, runs, conns, topology, chans>>

pubVars == <<unconfirmed, calls, msgs>>

prodVars == <<connVars, pubVars>>

vars == <<ecVars, prodVars, broker, cm, auxVars>>

Msgs == 1..NumMsgs

\* msg.content as the callback sees it: a JSON object, the JSON text `null`
\* (parses, but is no object) or text that JSON.parse refuses
BodyKinds == {"object", "null", "garbage"}

\* EVENT_PROCESSING.PREFETCH_COUNT
PREFETCH_COUNT == 10

\* JSON.parse(content) at line 113 returns; it throws a SyntaxError otherwise
JSONParses(body) == body # "garbage"

\* how `await this.processEvent(event, routingKey)` can end: the property
\* reads of lines 150-161 throw a TypeError when event is null, and the
\* catch arm of lines 167-170 rethrows whatever eventsService.processEvent
\* rejects with; otherwise the promise resolves, whatever boolean
\* eventsService.processEvent returned (the result is not read)
ProcessEventOutcomes(body) ==
  IF body = "null" THEN {"throw"} ELSE {"complete", "throw"}

RequeueOnError_always(redelivered) == TRUE

\* second argument of this.channel.reject(msg, !redelivered), line 127
RequeueOnError(redelivered) == ~redelivered

SettleOnComplete_firstOnly(redelivered) ==
  IF redelivered THEN "reject" ELSE "ack"

\* line 121: the try block ran to its end, this.channel.ack(msg)
SettleOnComplete(redelivered) == "ack"

\* the settlement the callback issues for one delivery
Settlement(outcome, redelivered) ==
  IF outcome = "complete"
  THEN SettleOnComplete(redelivered)
  ELSE "reject"

\* what the broker does with a settled delivery: ack removes it, reject with
\* requeue puts it back at the head flagged redelivered, reject without
\* requeue dead-letters it (x-dead-letter-exchange, lines 84-97: a fanout
\* exchange with RABBITMQ_DEAD_LETTER_QUEUE bound to it).  q and log are the
\* queue and the history the settlement applies to.
BrokerSettle(d, outcome, q, log) ==
  LET s == Settlement(outcome, d.redelivered)
      rq == s = "reject" /\ RequeueOnError(d.redelivered)
      verdict == IF s = "ack" THEN "ack"
                 ELSE IF rq THEN "requeue" ELSE "deadletter"
  IN /\ ecQueue' = IF rq
                   THEN <<[id |-> d.id, redelivered |-> TRUE]>> \o q
                   ELSE q
     /\ ecDlq' = IF verdict = "deadletter" THEN Append(ecDlq, d.id) ELSE ecDlq
     /\ ecLog' = [log EXCEPT ![d.id] =
                    [@ EXCEPT ![Len(@)] =
                       [@ EXCEPT !.outcome = outcome, !.settle = verdict]]]

\* a producer's message is routed to the queue (binding of line 98)
Enqueue(m, body) ==
  /\ ecBody[m] = "none"
  /\ ecBody' = [ecBody EXCEPT ![m] = body]
  /\ ecQueue' = Append(ecQueue, [id |-> m, redelivered |-> FALSE])
  /\ UNCHANGED <<ecUnacked, ecDlq, ecLog>>
  /\ UNCHANGED <<prodVars, broker, cm, auxVars>>

\* the broker delivers the head of the queue and the consume callback runs
\* up to its first suspension (lines 108-118): a body that does not parse
\* goes straight to the catch arm (lines 122-128)
Deliver ==
  /\ ecQueue # <<>>
  /\ Cardinality(ecUnacked) < PREFETCH_COUNT
  /\ LET d == Head(ecQueue)
         entry == [redelivered |-> d.redelivered, outcome |-> "pending",
                   settle |-> "pending"]
         log == [ecLog EXCEPT ![d.id] = Append(@, entry)]
     IN /\ Len(ecLog[d.id]) < MaxDeliveries
        /\ IF JSONParses(ecBody[d.id])
           THEN /\ ecQueue' = Tail(ecQueue)
                /\ ecUnacked' = ecUnacked \cup {d}
                /\ ecLog' = log
                /\ UNCHANGED <<ecDlq, ecBody>>
           ELSE /\ BrokerSettle(d, "parse", Tail(ecQueue), log)
                /\ UNCHANGED <<ecUnacked, ecBody>>
  /\ UNCHANGED <<prodVars, broker, cm, auxVars>>

\* processEvent resolved: line 121
ProcessEventCompletes(d) ==
  /\ d \in ecUnacked
  /\ "complete" \in ProcessEventOutcomes(ecBody[d.id])
  /\ ecUnacked' = ecUnacked \ {d}
  /\ BrokerSettle(d, "complete", ecQueue, ecLog)
  /\ UNCHANGED <<ecBody, prodVars, broker, cm, auxVars>>

\* processEvent rejected: lines 122-131
ProcessEventThrows(d) ==
  /\ d \in ecUnacked
  /\ "throw" \in ProcessEventOutcomes(ecBody[d.id])
  /\ ecUnacked' = ecUnacked \ {d}
  /\ BrokerSettle(d, "throw", ecQueue, ecLog)
  /\ UNCHANGED <<ecBody, prodVars, broker, cm, auxVars>>

InitConsumer ==
  /\ ecQueue = <<>>
  /\ ecUnacked = {}
  /\ ecDlq = <<>>
  /\ ecBody = [m \in Msgs |-> "none"]
  /\ ecLog = [m \in Msgs |-> <<>>]

NextConsumer ==
  \/ \E m \in Msgs, b \in BodyKinds : Enqueue(m, b)
  \/ Deliver
  \/ \E d \in ecUnacked : ProcessEventCompletes(d)
  \/ \E d \in ecUnacked : ProcessEventThrows(d)

\* ------------------------------------------------------------------------
\* Properties of EventsConsumer
\* ------------------------------------------------------------------------

InDlq(m) == \E i \in 1..Len(ecDlq) : ecDlq[i] = m

InQueue(m) == \E i \in 1..Len(ecQueue) : ecQueue[i].id = m

Unsettled(m) == \E d \in ecUnacked : d.id = m

\* the callback of every delivery of m so far has thrown (or is still running)
ThrowsSoFar(m) ==
  \A i \in 1..Len(ecLog[m]) : ecLog[m][i].outcome \in {"throw", "pending"}

\* C1: a message whose processing callback throws on every delivery is
\* delivered at most twice: the first delivery (redelivered = false) is
\* rejected with requeue, the second (redelivered = true) is rejected without
\* requeue, after which the message is in the dead-letter queue and neither
\* ready nor in flight, so there is no third delivery.
C1_AlwaysThrowingDeadLettered ==
  \A m \in Msgs :
    ThrowsSoFar(m) =>
      LET log == ecLog[m] IN
      /\ Len(log) <= 2
      /\ Len(log) >= 1 =>
           /\ ~log[1].redelivered
           /\ log[1].settle \in {"pending", "requeue"}
      /\ Len(log) = 2 =>
           /\ log[1].settle = "requeue"
           /\ log[2].redelivered
           /\ log[2].settle \in {"pending", "deadletter"}
      /\ (Len(log) = 2 /\ log[2].settle = "deadletter") =>
           InDlq(m) /\ ~InQueue(m) /\ ~Unsettled(m)
      /\ InDlq(m) => Len(log) = 2

\* a message thrown twice lies in the dead-letter queue
C1_Witness ==
  \E m \in Msgs :
    /\ Len(ecLog[m]) = 2
    /\ ecLog[m][1].outcome = "throw"
    /\ ecLog[m][2].outcome = "throw"
    /\ InDlq(m)

\* the callback of m threw on the first delivery and completed on the second
ThrewThenCompleted(m) ==
  /\ Len(ecLog[m]) >= 2
  /\ ecLog[m][1].outcome = "throw"
  /\ ecLog[m][2].outcome = "complete"

\* C2: a message whose callback throws on the first delivery and completes on
\* the second is acknowledged on that redelivery and is not in the dead-letter
\* queue (which only grows, so it never was); it is not delivered again.
C2_RetrySucceedsAcked ==
  \A m \in Msgs :
    ThrewThenCompleted(m) =>
      /\ ecLog[m][2].redelivered
      /\ ecLog[m][2].settle = "ack"
      /\ ~InDlq(m)
      /\ Len(ecLog[m]) = 2
      /\ ~InQueue(m) /\ ~Unsettled(m)

C2_Witness ==
  \E m \in Msgs : ThrewThenCompleted(m) /\ ecLog[m][2].settle = "ack"

\* C3: a message whose body is not valid JSON is rejected without requeue on
\* its first delivery: it is delivered once, dead-lettered by that delivery,
\* and the processing callback never runs for it.
C3_MalformedDeadLetteredAtOnce ==
  \A m \in Msgs :
    (ecBody[m] = "garbage" /\ Len(ecLog[m]) >= 1) =>
      /\ Len(ecLog[m]) = 1
      /\ ~ecLog[m][1].redelivered
      /\ ecLog[m][1].outcome = "parse"
      /\ ecLog[m][1].settle = "deadletter"
      /\ InDlq(m)

\* ------------------------------------------------------------------------
\* RabbitMQService (producer): envelope, ids, validation
\* ------------------------------------------------------------------------

\* A correlation id as the code handles it: undefined, the empty string, a
\* string the caller passed (n tells callers' strings apart), the value of
\* the x-request-id header, the result of generateCorrelationId()
\* (corr-<digits>-<token>) or of generateMessageId() (<digits>-<token>;
\* n is the call that generated it)
IdKinds == {"undefined", "empty", "caller", "header", "corr", "msgid"}

Id(kind, n) == [kind |-> kind, n |-> n]

Undefined == Id("undefined", 0)

EmptyString == Id("empty", 0)

\* JavaScript truthiness of a string-or-undefined value
Truthy(id) == id.kind \notin {"undefined", "empty"}

\* a || b
Or(a, b) == IF Truthy(a) THEN a ELSE b

\* generateCorrelationId(), lines 240-244: `corr-${timestamp}-${randomStr}`
generateCorrelationId(k) == Id("corr", k)

\* generateMessageId(), lines 232-234: `${Date.now()}-${random}`
generateMessageId(k) == Id("msgid", k)

\* enum LogLevel
LogLevels == {"debug", "info", "warn", "error"}

Validates_anyLevel(event) ==
  /\ event.service # ""
  /\ event.message # ""

\* validateOrReject(event) resolves: the decorators of BaseEventDto and
\* LogEventDto (service and message non-empty strings, level in the enum;
\* correlationId is optional and may be any string, timestamp defaults to
\* new Date())
Validates(event) ==
  /\ event.service # ""
  /\ event.level \in LogLevels
  /\ event.message # ""

\* JSON.stringify(event, ...) of lines 280-286: a property whose value is
\* undefined is left out of the text, every other one is written
Fields == {"service", "level", "message", "correlationId"}

Serialize(event) ==
  [f \in {g \in Fields : g = "correlationId" => event[g] # Undefined}
     |-> event[f]]

\* JSON.parse(content) followed by a property read on the consumer side
\* (events.consumer.ts line 156, event.correlationId): a property missing
\* from the text reads as undefined
ReadField(body, f) ==
  IF f \in DOMAIN body THEN body[f] ELSE Undefined

ResolveCorrelationId_fieldFirst(arg, field, messageId) ==
  Or(field, Or(arg, messageId))

\* line 297: correlationId || event.correlationId || messageId
ResolveCorrelationId(arg, field, messageId) ==
  Or(arg, Or(field, messageId))

\* ------------------------------------------------------------------------
\* RabbitMQService (producer): channels and calls
\* ------------------------------------------------------------------------

Max(a, b) == IF a >= b THEN a ELSE b

ConnIds == 1..Max(MaxConns, Max(MaxSessions, MaxOverlap))

ChanIds == ConnIds

CallIds == 1..(IF MaxCalls > MaxInFlight THEN MaxCalls ELSE MaxInFlight)

NoChan == [conn |-> 0, kind |-> "none", open |-> FALSE, done |-> {}]

\* the channel object can still send: it and its connection are open
ChanUsable(ch) ==
  /\ ch \in ChanIds
  /\ chans[ch].open
  /\ conns[chans[ch].conn] = "open"

\* the connections the broker can still accept, of `limit` in all
FreeConns(limit) == {c \in 1..limit : conns[c] = "unused"}

\* ------------------------------------------------------------------------
\* RabbitMQService: topology setup
\* ------------------------------------------------------------------------

\* RABBITMQ_ENABLE_DEAD_LETTER (the default)
enableDeadLetter == TRUE

\* the awaited statements of setupExchangeAndQueue(), lines 135-179, in
\* order; those of lines 154-170 only if enableDeadLetter
SetupStatements ==
  IF enableDeadLetter
  THEN <<"assertExchange", "assertDlx", "assertDlq", "bindDlq", "assertQueue",
         "bindQueue", "prefetch">>
  ELSE <<"assertExchange", "assertQueue", "bindQueue", "prefetch">>

\* queueOptions.arguments of lines 141-151
QueueArguments == IF enableDeadLetter THEN "deadLetter" ELSE "none"

\* what each declaring statement names
Declares(statement) ==
  CASE statement = "assertExchange" -> [kind |-> "exchange", name |-> "main"]
    [] statement = "assertDlx" -> [kind |-> "exchange", name |-> "dlx"]
    [] statement = "assertDlq" ->
         [kind |-> "queue", name |-> "dead", arguments |-> "none"]
    [] statement = "bindDlq" ->
         [kind |-> "binding", queue |-> "dead", exchange |-> "dlx"]
    [] statement = "assertQueue" ->
         [kind |-> "queue", name |-> "main", arguments |-> QueueArguments]
    [] statement = "bindQueue" ->
         [kind |-> "binding", queue |-> "main", exchange |-> "main"]
    [] OTHER -> [kind |-> "none"]

NoTopology == [exchanges |-> {}, queues |-> {}, bindings |-> <<>>]

\* the broker as another deployment left it: the main queue exists, declared
\* without dead-letter arguments
LegacyTopology ==
  [exchanges |-> {"main"},
   queues |-> {[name |-> "main", arguments |-> "none"]},
   bindings |-> <<[queue |-> "main", exchange |-> "main"]>>]

HasBinding_never(t, b) == FALSE

HasBinding(t, b) == \E i \in 1..Len(t.bindings) : t.bindings[i] = b

\* the broker accepts the statement: a queue may be redeclared only with
\* the arguments it has (otherwise 406 PRECONDITION_FAILED), a binding needs
\* its queue and its exchange (otherwise 404 NOT_FOUND)
Accepts(t, statement) ==
  LET d == Declares(statement) IN
  CASE d.kind = "queue" ->
         \A q \in t.queues : q.name = d.name => q.arguments = d.arguments
    [] d.kind = "binding" ->
         /\ d.exchange \in t.exchanges
         /\ \E q \in t.queues : q.name = d.queue
    [] OTHER -> TRUE

\* the topology after an accepted statement: declaring what exists and
\* binding what is bound change nothing
Apply(t, statement) ==
  LET d == Declares(statement) IN
  CASE d.kind = "exchange" -> [t EXCEPT !.exchanges = @ \cup {d.name}]
    [] d.kind = "queue" ->
         [t EXCEPT !.queues = @ \cup {[name |-> d.name,
                                        arguments |-> d.arguments]}]
    [] d.kind = "binding" ->
         LET b == [queue |-> d.queue, exchange |-> d.exchange] IN
         IF HasBinding(t, b) THEN t
         ELSE [t EXCEPT !.bindings = Append(@, b)]
    [] OTHER -> t

\* ------------------------------------------------------------------------
\* RabbitMQService: connect and reconnect
\* ------------------------------------------------------------------------

\* the cap of line 196, in ms
MAX_RECONNECT_DELAY == 30000

Min(a, b) == IF a <= b THEN a ELSE b

ReconnectDelay_afterIncrement(attempts) ==
  Min(ReconnectDelayBase * 2 ^ (attempts + 1), MAX_RECONNECT_DELAY)

\* line 196: Math.min(reconnectDelayBase * Math.pow(2, reconnectAttempts),
\* 30000), read before the increment of line 197
ReconnectDelay(attempts) ==
  Min(ReconnectDelayBase * 2 ^ attempts, MAX_RECONNECT_DELAY)

GiveUp_offByOne(attempts) == attempts > MaxReconnectAttempts

GiveUp_early(attempts) == attempts + 1 >= MaxReconnectAttempts

\* line 189: this.reconnectAttempts >= this.maxReconnectAttempts
GiveUp(attempts) == attempts >= MaxReconnectAttempts

\* reconnect(), lines 188-211, on reconnectAttempts and the pending timers:
\* return at maxReconnectAttempts, otherwise compute the delay, count the
\* attempt and set a timer
reconnect(st) ==
  IF GiveUp(st.attempts)
  THEN st
  ELSE [attempts |-> st.attempts + 1, timers |-> st.timers + 1,
        schedule |-> Append(st.schedule, ReconnectDelay(st.attempts))]

\* n calls of reconnect() in a row
ReconnectTimes(n) ==
  LET st0 == [attempts |-> reconnectAttempts, timers |-> timers,
              schedule |-> schedule]
      st1 == reconnect(st0)
      st2 == reconnect(st1)
  IN IF n = 0 THEN st0 ELSE IF n = 1 THEN st1 ELSE st2

\* the catch arm of connect(), lines 121-125
ConnectCatch ==
  /\ isConnected' = FALSE
  /\ reconnectAttempts' = ReconnectTimes(1).attempts
  /\ timers' = ReconnectTimes(1).timers
  /\ schedule' = ReconnectTimes(1).schedule

\* amqplib's Channel 'close' listener: every unconfirmed publish of the
\* channels in `closed` fails with 'channel closed', which rejects the
\* waitForConfirms() promise of every call waiting on one of them (line 320);
\* what was still on the wire is lost
OnConfirmError == "false"

ChannelsClosed(closed) ==
  LET gone == {m \in CallIds : msgs[m].st # "none" /\ msgs[m].chan \in closed
                                /\ msgs[m].confirm = "pending"}
  IN /\ unconfirmed' = [ch \in ChanIds |->
                          IF ch \in closed THEN <<>> ELSE unconfirmed[ch]]
     /\ msgs' = [m \in CallIds |->
                   IF msgs[m].st # "none" /\ msgs[m].chan \in closed
                   THEN [msgs[m] EXCEPT
                           !.st = IF @ = "wire" THEN "lost" ELSE @,
                           !.confirm = IF @ = "pending" THEN "closed" ELSE @]
                   ELSE msgs[m]]
     /\ calls' = [k \in CallIds |->
                    IF calls[k].pc = "confirm" /\ calls[k].awaiting \cap gone # {}
                    THEN [calls[k] EXCEPT !.pc = "done",
                            !.result = OnConfirmError,
                            !.failure = "confirmClosed", !.awaiting = {}]
                    ELSE calls[k]]

\* onModuleInit(), lines 59-66: the first connect()
OnModuleInit ==
  /\ ~started
  /\ started' = TRUE
  /\ connecting' = connecting + 1
  /\ UNCHANGED <<schedule, topology,
                 useConfirmChannel, connection, channel, isConnected,
                 isConfirmChannel, reconnectAttempts, timers, runs, conns,
                 chans>>
  /\ UNCHANGED <<pubVars, ecVars, broker, cm, auxVars>>

\* a reconnect timer fires (lines 201-210) and starts a connect()
TimerFires ==
  /\ timers > 0
  /\ timers' = timers - 1
  /\ connecting' = connecting + 1
  /\ UNCHANGED <<schedule, topology,
                 started, useConfirmChannel, connection, channel, isConnected,
                 isConfirmChannel, reconnectAttempts, runs, conns, chans>>
  /\ UNCHANGED <<pubVars, ecVars, broker, cm, auxVars>>

\* amqp.connect(url) resolves (line 80): the connection is stored, its
\* 'error' and 'close' observers are registered (lines 82-92) and the
\* channel is requested (lines 96-101)
ConnectResolves(limit) ==
  /\ connecting > 0
  /\ FreeConns(limit) # {}
  /\ LET c == CHOOSE x \in FreeConns(limit) : \A y \in FreeConns(limit) : x <= y
     IN /\ conns' = [conns EXCEPT ![c] = "open"]
        /\ connection' = c
        /\ runs' = runs \cup {[conn |-> c, pc |-> "channel", target |-> c,
                                    step |-> 0, on |-> 0]}
  /\ connecting' = connecting - 1
  /\ UNCHANGED <<schedule, topology,
                 started, useConfirmChannel, channel, isConnected,
                 isConfirmChannel, reconnectAttempts, timers, chans>>
  /\ UNCHANGED <<pubVars, ecVars, broker, cm, auxVars>>

\* amqp.connect(url) rejects: the catch arm of connect()
ConnectRejects ==
  /\ connecting > 0
  /\ connecting' = connecting - 1
  /\ ConnectCatch
  /\ UNCHANGED <<started, useConfirmChannel, connection, channel,
                 isConfirmChannel, runs, conns, topology, chans>>
  /\ UNCHANGED <<pubVars, ecVars, broker, cm, auxVars>>

\* createConfirmChannel() / createChannel() resolves (lines 96-104); the
\* channel's 'error' listener is registered and setupExchangeAndQueue()
\* is entered (lines 111-116)
CreateChannelResolves(r) ==
  /\ r \in runs /\ r.pc = "channel"
  /\ conns[r.conn] = "open"
  /\ chans' = [chans EXCEPT ![r.conn] =
                 [conn |-> r.conn,
                  kind |-> IF useConfirmChannel THEN "confirm" ELSE "regular",
                  open |-> TRUE, done |-> {}]]
  /\ channel' = r.conn
  /\ isConfirmChannel' = useConfirmChannel
  /\ runs' = (runs \ {r}) \cup {[r EXCEPT !.pc = "setup", !.step = 1,
                                           !.on = r.conn]}
  /\ UNCHANGED <<schedule, topology,
                 started, useConfirmChannel, connection, isConnected,
                 reconnectAttempts, timers, connecting, conns>>
  /\ UNCHANGED <<pubVars, ecVars, broker, cm, auxVars>>

\* createConfirmChannel() / createChannel() rejects: the inner catch arm
\* (lines 105-107) asks this.connection, as it is now, for a regular channel
CreateChannelRejects(r) ==
  /\ r \in runs /\ r.pc = "channel"
  /\ runs' = (runs \ {r}) \cup {[r EXCEPT !.pc = "fallback",
                                           !.target = connection]}
  /\ UNCHANGED <<schedule, topology,
                 started, useConfirmChannel, connection, channel, isConnected,
                 isConfirmChannel, reconnectAttempts, timers, connecting,
                 conns, chans>>
  /\ UNCHANGED <<pubVars, ecVars, broker, cm, auxVars>>

FallbackConfirmMode_stale == TRUE

\* line 108: this.isConfirmChannel = false
FallbackConfirmMode == FALSE

\* the fallback createChannel() resolves (lines 107-108)
FallbackResolves(r) ==
  /\ r \in runs /\ r.pc = "fallback"
  /\ conns[r.target] = "open"
  /\ chans' = [chans EXCEPT ![r.conn] =
                 [conn |-> r.target, kind |-> "regular", open |-> TRUE,
                  done |-> {}]]
  /\ channel' = r.conn
  /\ isConfirmChannel' = FallbackConfirmMode
  /\ runs' = (runs \ {r}) \cup {[r EXCEPT !.pc = "setup", !.step = 1,
                                           !.on = r.conn]}
  /\ UNCHANGED <<schedule, topology,
                 started, useConfirmChannel, connection, isConnected,
                 reconnectAttempts, timers, connecting, conns>>
  /\ UNCHANGED <<pubVars, ecVars, broker, cm, auxVars>>

\* the fallback createChannel() rejects: the catch arm of connect()
FallbackRejects(r) ==
  /\ r \in runs /\ r.pc = "fallback"
  /\ runs' = runs \ {r}
  /\ ConnectCatch
  /\ UNCHANGED <<started, useConfirmChannel, connection, channel,
                 isConfirmChannel, connecting, conns, topology, chans>>
  /\ UNCHANGED <<pubVars, ecVars, broker, cm, auxVars>>

\* the statements of setupExchangeAndQueue() from statement n on accepted
\* by the broker one after the other
RECURSIVE SetupAccepted(_, _)
SetupAccepted(t, n) ==
  IF n > Len(SetupStatements) THEN TRUE
  ELSE /\ Accepts(t, SetupStatements[n])
       /\ SetupAccepted(Apply(t, SetupStatements[n]), n + 1)

\* the topology after them
RECURSIVE SetupApplied(_, _)
SetupApplied(t, n) ==
  IF n > Len(SetupStatements) THEN t
  ELSE SetupApplied(Apply(t, SetupStatements[n]), n + 1)

AllStatements == {SetupStatements[n] : n \in 1..Len(SetupStatements)}

\* setupExchangeAndQueue() runs from its first statement to its last with
\* no other callback in between, all of it on this.channel as it is then,
\* and connect() goes on to lines 118-119
SetupResolves(r) ==
  /\ r \in runs /\ r.pc = "setup" /\ r.step = 1
  /\ ChanUsable(channel)
  /\ SetupAccepted(topology, 1)
  /\ topology' = SetupApplied(topology, 1)
  /\ chans' = [chans EXCEPT ![channel].done = AllStatements]
  /\ isConnected' = TRUE
  /\ reconnectAttempts' = 0
  /\ schedule' = <<>>
  /\ runs' = runs \ {r}
  /\ UNCHANGED <<started, useConfirmChannel, connection, channel,
                 isConfirmChannel, connecting, conns, timers>>
  /\ UNCHANGED <<pubVars, ecVars, broker, cm, auxVars>>

\* a statement of setupExchangeAndQueue() rejects, which closes the
\* channel; the method rethrows (lines 182-185) into the catch arm of
\* connect()
SetupRejects(r) ==
  /\ r \in runs /\ r.pc = "setup" /\ r.step = 1
  /\ runs' = runs \ {r}
  /\ ConnectCatch
  /\ chans' = [chans EXCEPT ![channel].open = FALSE]
  /\ ChannelsClosed({channel})
  /\ UNCHANGED <<started, useConfirmChannel, connection, channel,
                 isConfirmChannel, connecting, conns, topology, ecVars, broker, cm, auxVars>>

\* the statement of setupExchangeAndQueue() that run r awaits resolves.
\* The next statement, if any, is issued on this.channel as it is now
\* (each of lines 135-179 reads this.channel afresh); issuing it on a closed
\* channel throws, which ends in the catch arm of connect().  After the
\* last statement connect() goes on to lines 118-119.
SetupStatementResolves(r) ==
  /\ r \in runs /\ r.pc = "setup"
  /\ ChanUsable(r.on)
  /\ Accepts(topology, SetupStatements[r.step])
  /\ topology' = Apply(topology, SetupStatements[r.step])
  /\ chans' = [chans EXCEPT ![r.on].done = @ \cup {SetupStatements[r.step]}]
  /\ IF r.step = Len(SetupStatements)
     THEN /\ isConnected' = TRUE
          /\ reconnectAttempts' = 0
          /\ schedule' = <<>>
          /\ runs' = runs \ {r}
          /\ UNCHANGED timers
     ELSE IF ChanUsable(channel)
     THEN /\ runs' = (runs \ {r}) \cup {[r EXCEPT !.step = r.step + 1,
                                                   !.on = channel]}
          /\ UNCHANGED <<isConnected, reconnectAttempts, schedule, timers>>
     ELSE /\ runs' = runs \ {r}
          /\ ConnectCatch
  /\ UNCHANGED <<started, useConfirmChannel, connection, channel,
                 isConfirmChannel, connecting, conns>>
  /\ UNCHANGED <<pubVars, ecVars, broker, cm, auxVars>>

\* the statement that run r awaits rejects: the broker refuses it, which
\* closes the channel it was sent on, or that channel has closed under it.
\* setupExchangeAndQueue() rethrows (lines 182-185) into the catch arm of
\* connect().
SetupStatementRejects(r) ==
  /\ r \in runs /\ r.pc = "setup"
  /\ ~ChanUsable(r.on) \/ ~Accepts(topology, SetupStatements[r.step])
  /\ runs' = runs \ {r}
  /\ ConnectCatch
  /\ chans' = [chans EXCEPT ![r.on].open = FALSE]
  /\ ChannelsClosed({r.on})
  /\ UNCHANGED <<started, useConfirmChannel, connection, channel,
                 isConfirmChannel, connecting, conns, topology, ecVars, broker, cm, auxVars>>

\* connection c is lost.  amqplib emits 'close', after 'error' when the loss
\* is an error: each observer (lines 82-92) clears isConnected and calls
\* reconnect().  The channels of c close with it.
ConnectionLost(c, withError) ==
  /\ conns[c] = "open"
  /\ conns' = [conns EXCEPT ![c] = "closed"]
  /\ chans' = [ch \in ChanIds |->
                 IF chans[ch].conn = c THEN [chans[ch] EXCEPT !.open = FALSE]
                 ELSE chans[ch]]
  /\ ChannelsClosed({ch \in ChanIds : chans[ch].conn = c /\ chans[ch].open})
  /\ isConnected' = FALSE
  /\ LET st == ReconnectTimes(IF withError THEN 2 ELSE 1)
     IN /\ reconnectAttempts' = st.attempts
        /\ timers' = st.timers
        /\ schedule' = st.schedule
  /\ UNCHANGED <<started, useConfirmChannel, connection, channel,
                 isConfirmChannel, connecting, runs, topology, ecVars, broker, cm, auxVars>>

\* the broker closes one channel (a channel-level error); the channel's
\* 'error' listener only logs (lines 111-113)
ChannelError(ch) ==
  /\ ChanUsable(ch)
  /\ chans' = [chans EXCEPT ![ch].open = FALSE]
  /\ ChannelsClosed({ch})
  /\ UNCHANGED <<schedule, topology,
                 started, useConfirmChannel, connection, channel, isConnected,
                 isConfirmChannel, reconnectAttempts, timers, connecting,
                 runs, conns, ecVars, broker, cm, auxVars>>

\* ------------------------------------------------------------------------
\* RabbitMQService: the publish family
\* ------------------------------------------------------------------------

NoEnvelope ==
  [service |-> "", level |-> "", message |-> "", correlationId |-> Undefined]

IdleCall ==
  [pc |-> "idle", result |-> "none", failure |-> "none",
   envelope |-> NoEnvelope, connectedAtCall |-> FALSE, confirmMode |-> FALSE,
   published |-> FALSE, localOk |-> FALSE, awaiting |-> {}]

NoMsg ==
  [st |-> "none", chan |-> 0, confirm |-> "none",
   correlationId |-> Undefined, messageId |-> Undefined,
   body |-> Serialize(NoEnvelope),
   arg |-> Undefined, field |-> Undefined, callerIds |-> {}]

\* lines 263-266 (and 364-367, 498-501): validateOrReject rejected
OnValidationError == "false"

OnNotConnected_throws == "threw"

\* lines 269-270: a warning is logged and false is returned
OnNotConnected == "false"

ConnectedCheck_channelOnly == channel # 0

\* line 268, negated: this.isConnected && this.channel
ConnectedCheck == isConnected /\ channel # 0

OnPublishException_rethrow == "threw"

\* lines 329-332: whatever the second try block throws is logged
OnPublishException == "false"

\* lines 304-307: channel.publish returned false
OnBufferFull == "false"

AwaitsConfirm_never(confirm) == FALSE

\* line 310: if (this.isConfirmChannel)
AwaitsConfirm(confirm) == confirm

\* the call k returns `result`
Return(k, event, result, failure, published, localOk) ==
  calls' = [calls EXCEPT ![k] =
              [IdleCall EXCEPT !.pc = "done", !.result = result,
                 !.failure = failure, !.envelope = event,
                 !.connectedAtCall = isConnected,
                 !.confirmMode = isConfirmChannel,
                 !.published = published, !.localOk = localOk]]

\* publishEvent(event, correlationId), lines 252-333, up to its return or to
\* the wait for the broker's confirm.  validateOrReject of an envelope whose
\* decorators are all synchronous settles within the same turn of the event
\* loop, so no broker event falls between the call and line 268.
\* callerIds are the ids the caller of the public method supplied.
PublishEventBody(k, event, arg, callerIds) ==
  IF ~Validates(event)
  THEN /\ Return(k, event, OnValidationError, "validation", FALSE, FALSE)
       /\ UNCHANGED <<unconfirmed, msgs>>
  ELSE IF ~ConnectedCheck
  THEN /\ Return(k, event, OnNotConnected, "notConnected", FALSE, FALSE)
       /\ UNCHANGED <<unconfirmed, msgs>>
  ELSE IF ~ChanUsable(channel)
  THEN \* channel.publish throws IllegalOperationError
       /\ Return(k, event, OnPublishException, "closedChannel",
                 TRUE, FALSE)
       /\ UNCHANGED <<unconfirmed, msgs>>
  ELSE \E ok \in BOOLEAN :
    LET messageId == generateMessageId(k)
        m == [st |-> "wire", chan |-> channel,
              confirm |-> IF chans[channel].kind = "confirm" THEN "pending"
                          ELSE "none",
              correlationId |->
                ResolveCorrelationId(arg, event.correlationId, messageId),
              messageId |-> messageId,
              body |-> Serialize(event),
              arg |-> arg, field |-> event.correlationId,
              callerIds |-> {i \in callerIds : Truthy(i)}]
        unc == IF chans[channel].kind = "confirm"
               THEN [unconfirmed EXCEPT ![channel] = Append(@, k)]
               ELSE unconfirmed
    IN /\ msgs' = [msgs EXCEPT ![k] = m]
       /\ unconfirmed' = unc
       /\ IF ~ok
          THEN Return(k, event, OnBufferFull, "bufferFull", TRUE, FALSE)
          ELSE IF ~AwaitsConfirm(isConfirmChannel)
          THEN Return(k, event, "true", "none", TRUE, TRUE)
          ELSE IF chans[channel].kind # "confirm"
          THEN \* waitForConfirms is no method of a regular channel: the
               \* TypeError rejects the promise of lines 312-318
               Return(k, event, OnConfirmError, "confirmClosed",
                      TRUE, TRUE)
          ELSE calls' = [calls EXCEPT ![k] =
                 [IdleCall EXCEPT !.pc = "confirm", !.envelope = event,
                    !.connectedAtCall = isConnected, !.confirmMode = TRUE,
                    !.published = TRUE, !.localOk = TRUE,
                    !.awaiting = {unc[channel][i] :
                                    i \in 1..Len(unc[channel])}]]

\* publishEvent called directly
publishEvent(k, event, arg) ==
  /\ calls[k].pc = "idle"
  /\ PublishEventBody(k, event, arg,
                      {arg, event.correlationId})
  /\ UNCHANGED <<connVars, ecVars, broker, cm, auxVars>>

\* new LogEventDto() filled from logData, lines 347-358 and 463-474
LogEvent(k, logData) ==
  [service |-> "data-service-a", level |-> logData.level,
   message |-> logData.message,
   correlationId |-> Or(logData.correlationId, generateCorrelationId(k))]

\* publishLogEvent(logData), lines 340-368
publishLogEvent(k, logData) ==
  /\ calls[k].pc = "idle"
  /\ LET logEvent == LogEvent(k, logData)
     IN IF ~Validates(logEvent)
        THEN /\ Return(k, logEvent, OnValidationError, "validation",
                       FALSE, FALSE)
             /\ UNCHANGED <<unconfirmed, msgs>>
        ELSE PublishEventBody(k, logEvent, logEvent.correlationId,
                              {logData.correlationId})
  /\ UNCHANGED <<connVars, ecVars, broker, cm, auxVars>>

\* the requests a caller passes: none, one without and one with the
\* x-request-id header
Requests == {"none", "plain", "requestId"}

RequestId(req) ==
  IF req = "requestId" THEN Id("header", 0) ELSE Undefined

\* publishEventWithRequest(event, req, correlationId), lines 427-445
publishEventWithRequest(k, event, req, arg) ==
  /\ calls[k].pc = "idle"
  /\ LET fill == req # "none" /\ ~Truthy(arg) /\ ~Truthy(event.correlationId)
         correlationId ==
           IF fill THEN Or(RequestId(req), generateCorrelationId(k)) ELSE arg
         ev == IF fill THEN [event EXCEPT !.correlationId = correlationId]
               ELSE event
     IN PublishEventBody(k, ev, correlationId,
                         {arg, event.correlationId, RequestId(req)})
  /\ UNCHANGED <<connVars, ecVars, broker, cm, auxVars>>

\* publishLogEventWithRequest(logData, req), lines 453-502
publishLogEventWithRequest(k, logData, req) ==
  /\ calls[k].pc = "idle"
  /\ LET logEvent == LogEvent(k, logData)
     IN IF ~Validates(logEvent)
        THEN /\ Return(k, logEvent, OnValidationError, "validation",
                       FALSE, FALSE)
             /\ UNCHANGED <<unconfirmed, msgs>>
        ELSE PublishEventBody(k, logEvent, logEvent.correlationId,
                              {logData.correlationId})
  /\ UNCHANGED <<connVars, ecVars, broker, cm, auxVars>>

\* the broker routes a published message to the main queue (binding of
\* line 176)
BrokerRoutes(m) ==
  /\ msgs[m].st = "wire"
  /\ ChanUsable(msgs[m].chan)
  /\ msgs' = [msgs EXCEPT ![m].st = "queued"]
  /\ UNCHANGED <<unconfirmed, calls>>
  /\ UNCHANGED <<connVars, ecVars, broker, cm, auxVars>>

\* the broker cannot take responsibility for a published message
BrokerRefuses(m) ==
  /\ msgs[m].st = "wire"
  /\ ChanUsable(msgs[m].chan)
  /\ msgs' = [msgs EXCEPT ![m].st = "refused"]
  /\ UNCHANGED <<unconfirmed, calls>>
  /\ UNCHANGED <<connVars, ecVars, broker, cm, auxVars>>

\* the broker's ack or nack of the oldest unconfirmed publish of channel ch
\* arrives: amqplib settles its callback, and with it the Promise.all of
\* every waitForConfirms() that includes it (lines 312-323)
ConfirmArrives(ch) ==
  /\ ChanUsable(ch)
  /\ unconfirmed[ch] # <<>>
  /\ LET m == Head(unconfirmed[ch])
         acked == msgs[m].st = "queued"
     IN /\ msgs[m].st \in {"queued", "refused"}
        /\ msgs' = [msgs EXCEPT ![m].confirm = IF acked THEN "ack" ELSE "nack"]
        /\ unconfirmed' = [unconfirmed EXCEPT ![ch] = Tail(@)]
        /\ calls' = [k \in CallIds |->
             IF calls[k].pc = "confirm" /\ m \in calls[k].awaiting
             THEN IF ~acked
                  THEN [calls[k] EXCEPT !.pc = "done",
                          !.result = OnConfirmError, !.failure = "nack",
                          !.awaiting = {}]
                  ELSE IF calls[k].awaiting = {m}
                  THEN [calls[k] EXCEPT !.pc = "done", !.result = "true",
                          !.awaiting = {}]
                  ELSE [calls[k] EXCEPT !.awaiting = @ \ {m}]
             ELSE calls[k]]
  /\ UNCHANGED <<connVars, ecVars, broker, cm, auxVars>>


\* ------------------------------------------------------------------------
\* The consumer services' connection managers: EventsConsumer and
\* RabbitMQConsumerService
\* ------------------------------------------------------------------------

ConsumerKinds == {"EventsConsumer", "RabbitMQConsumerService"}

\* the delay of every setTimeout of the two services
CONSUMER_RECONNECT_DELAY == 5000

CmConnIds == 1..MaxSessions

\* a consumer service after construction.  failed and schedule are not
\* fields of the services: the connects that failed since the last one that
\* succeeded, and the delays of the timers set since then.
NewManager(kind) ==
  [kind |-> kind, started |-> FALSE, connection |-> 0, channel |-> 0,
   conns |-> [c \in CmConnIds |-> "unused"], channels |-> {},
   timers |-> 0, connecting |-> 0, creating |-> {},
   setup |-> "none", consumerOn |-> 0, failed |-> 0, schedule |-> <<>>]

CmChanUsable(m) == m.channel # 0 /\ m.conns[m.channel] = "open"

\* setTimeout(() => connect, 5000), n times
CmReconnect(m, n) ==
  [m EXCEPT !.timers = @ + n,
            !.schedule = IF n = 2
                         THEN @ \o <<CONSUMER_RECONNECT_DELAY,
                                     CONSUMER_RECONNECT_DELAY>>
                         ELSE Append(@, CONSUMER_RECONNECT_DELAY)]

\* the connect() that onModuleInit awaits has settled: onModuleInit goes on
\* to consumeMessages() / setupConsumer()
CmSettled(m) ==
  IF m.setup = "awaitConnect" THEN [m EXCEPT !.setup = "due"] ELSE m

\* the catch arm of connectToRabbitMQ() / connect()
CmCatch(m) == CmSettled(CmReconnect([m EXCEPT !.failed = @ + 1], 1))

CmOnModuleInit ==
  /\ ~cm.started
  /\ cm' = [cm EXCEPT !.started = TRUE, !.connecting = 1,
                      !.setup = "awaitConnect"]
  /\ UNCHANGED <<ecVars, prodVars, broker, auxVars>>

CmTimerFires ==
  /\ cm.timers > 0
  /\ cm' = [cm EXCEPT !.timers = @ - 1, !.connecting = @ + 1]
  /\ UNCHANGED <<ecVars, prodVars, broker, auxVars>>

\* amqp.connect resolves: the connection is stored and a channel asked for
CmConnectResolves ==
  /\ cm.connecting > 0
  /\ \E c \in CmConnIds :
       /\ cm.conns[c] = "unused"
       /\ \A d \in CmConnIds : cm.conns[d] = "unused" => c <= d
       /\ cm' = [cm EXCEPT !.connecting = @ - 1, !.conns[c] = "open",
                           !.connection = c, !.creating = @ \cup {c}]
  /\ UNCHANGED <<ecVars, prodVars, broker, auxVars>>

CmConnectRejects ==
  /\ cm.connecting > 0
  /\ cm.failed < MaxConsumerAttempts
  /\ cm' = CmCatch([cm EXCEPT !.connecting = @ - 1])
  /\ UNCHANGED <<ecVars, prodVars, broker, auxVars>>

\* createChannel resolves: the channel is stored and the 'error' and 'close'
\* observers of the connection are registered
CmCreateChannelResolves(c) ==
  /\ c \in cm.creating
  /\ cm.conns[c] = "open"
  /\ cm' = CmSettled([cm EXCEPT !.creating = @ \ {c}, !.channel = c,
                                !.channels = @ \cup {c}, !.failed = 0,
                                !.schedule = <<>>])
  /\ UNCHANGED <<ecVars, prodVars, broker, auxVars>>

CmCreateChannelRejects(c) ==
  /\ c \in cm.creating
  /\ cm.failed < MaxConsumerAttempts
  /\ cm' = CmCatch([cm EXCEPT !.creating = @ \ {c}])
  /\ UNCHANGED <<ecVars, prodVars, broker, auxVars>>

\* connection c is lost: its channel and the consumer on it go with it; if
\* its observers are registered, 'close' (after 'error' when the loss is an
\* error) calls reconnect()
CmConnectionLost(c, withError) ==
  /\ cm.conns[c] = "open"
  /\ LET m == [cm EXCEPT !.conns[c] = "closed",
                         !.consumerOn = IF @ = c THEN 0 ELSE @]
     IN cm' = IF c \in cm.channels
              THEN CmReconnect(m, IF withError THEN 2 ELSE 1)
              ELSE m
  /\ UNCHANGED <<ecVars, prodVars, broker, auxVars>>

\* consumeMessages() / setupConsumer() runs on this.channel: it asserts the
\* topology and issues consume, or it fails.  EventsConsumer then tries
\* consumeMessages() again after 5 s, RabbitMQConsumerService calls
\* reconnect()
CmSetup ==
  /\ cm.setup = "due"
  /\ cm' = IF CmChanUsable(cm)
           THEN [cm EXCEPT !.setup = "done", !.consumerOn = cm.channel]
           ELSE IF cm.kind = "EventsConsumer"
           THEN [cm EXCEPT !.setup = "timer"]
           ELSE CmReconnect([cm EXCEPT !.setup = "failed"], 1)
  /\ UNCHANGED <<ecVars, prodVars, broker, auxVars>>

CmSetupTimerFires ==
  /\ cm.setup = "timer"
  /\ cm' = [cm EXCEPT !.setup = "due"]
  /\ UNCHANGED <<ecVars, prodVars, broker, auxVars>>

NextManagers ==
  \/ CmOnModuleInit
  \/ CmTimerFires
  \/ CmConnectResolves
  \/ CmConnectRejects
  \/ \E c \in CmConnIds : CmCreateChannelResolves(c)
  \/ \E c \in CmConnIds : CmCreateChannelRejects(c)
  \/ \E c \in CmConnIds, e \in BOOLEAN : CmConnectionLost(c, e)
  \/ CmSetup
  \/ CmSetupTimerFires

\* ------------------------------------------------------------------------
\* Logs module: RabbitMQConsumerService and RedisTimeSeriesService
\* ------------------------------------------------------------------------

NumLogMsgs == 2

MaxLogDeliveries == 3

\* milliseconds of a UTC day, scaled
DayLength == 2

NumCorrelationIds == 1

NumRandomTokens == 2

LogMsgs == 1..NumLogMsgs

\* Date.getTime() values; InvalidDate is the NaN of an unparsable timestamp
Timestamps == 0..DayLength

InvalidDate == 0 - 1

\* new Date(timestamp).toISOString().split('T')[0]: the UTC day
DateStr(timestamp) == timestamp \div DayLength

Days == {DateStr(t) : t \in Timestamps}

\* 0 stands for a correlationId that is absent or empty (falsy)
CorrelationIds == 1..NumCorrelationIds

RandomTokens == 1..NumRandomTokens

LogMessages == {"City processing completed"}

LogMetadata == {100}

\* msg.content: a JSON object with the fields of LogEvent, the JSON text
\* `null`, or text that JSON.parse refuses
LogEvents ==
  [kind : {"object"}, correlationId : {0} \cup CorrelationIds,
   timestamp : Timestamps \cup {InvalidDate}, message : LogMessages,
   totalCities : LogMetadata]

OtherBody(kind) ==
  [kind |-> kind, correlationId |-> 0, timestamp |-> 0,
   message |-> "City processing completed", totalCities |-> 100]

LogBodies == LogEvents \cup {OtherBody("null"), OtherBody("garbage")}

\* logEvent.correlationId || `event-${timestamp}-${random}`
EventId(logEvent, random) ==
  IF logEvent.correlationId # 0
  THEN [corr |-> logEvent.correlationId, ts |-> 0, rand |-> 0]
  ELSE [corr |-> 0, ts |-> logEvent.timestamp, rand |-> random]

\* `logdata:${timestamp}:${eventId}`
DataKey(logEvent, random) ==
  [timestamp |-> logEvent.timestamp, eventId |-> EventId(logEvent, random)]

\* client.set(dataKey, JSON.stringify(logEvent)): the value replaces what
\* the key held
RedisSet(data, key, value) ==
  {e \in data : e.key # key} \cup {[key |-> key, value |-> value]}

\* client.sAdd(indexKey, dataKey) with indexKey `logindex:${dateStr}`
RedisSAdd(index, day, key) == index \cup {[day |-> day, key |-> key]}

\* how one call of storeLogEvent can go: the client is not connected and
\* cannot be (lines 138-144), one of the three redis commands rejects, or
\* all of them resolve
StoreOutcomes == {"notConnected", "setFails", "sAddFails", "expireFails", "ok"}

\* storeLogEvent(logEvent), lines 136-171: the redis keys after the call and
\* the boolean it resolves with.  Reading logEvent.timestamp of null throws
\* inside the try block, and so does toISOString() of an invalid date, after
\* the SET; the catch arm turns every error into false.
StoreLogEvent(store, logEvent, outcome, random) ==
  LET key == DataKey(logEvent, random)
      written == RedisSet(store.data, key, logEvent)
      indexed == RedisSAdd(store.index, DateStr(logEvent.timestamp), key)
  IN IF outcome = "notConnected" \/ logEvent.kind = "null"
        \/ outcome = "setFails"
     THEN [data |-> store.data, index |-> store.index, stored |-> FALSE]
     ELSE IF logEvent.timestamp = InvalidDate \/ outcome = "sAddFails"
     THEN [data |-> written, index |-> store.index, stored |-> FALSE]
     ELSE [data |-> written, index |-> indexed,
           stored |-> outcome = "ok"]

\* getLogsByDay(dateStr), lines 173-213: one entry for every member of the
\* day's index whose data key still holds a value
GetLogsByDay(store, day) ==
  {e \in store.data : [day |-> day, key |-> e.key] \in store.index}

NewStore == [data |-> {}, index |-> {}]

NewLogsConsumer ==
  [queue |-> <<>>, unacked |-> {},
   body |-> [m \in LogMsgs |-> OtherBody("none")],
   log |-> [m \in LogMsgs |-> <<>>]]

\* third argument of this.channel.nack(msg, false, true), lines 92 and 97
LcRequeue(redelivered) == TRUE

\* what the broker does once onMessage has settled delivery d: ack removes
\* the message, nack with requeue puts it back at the head of the queue
\* flagged redelivered, nack without requeue discards it
LcSettle(d, outcome, q, log) ==
  LET verdict == IF outcome = "stored" THEN "ack"
                 ELSE IF LcRequeue(d.redelivered) THEN "requeue"
                 ELSE "discard"
  IN [queue |-> IF verdict = "requeue"
                THEN <<[id |-> d.id, redelivered |-> TRUE]>> \o q
                ELSE q,
      log |-> [log EXCEPT ![d.id] =
                 [@ EXCEPT ![Len(@)] =
                    [@ EXCEPT !.outcome = outcome, !.settle = verdict]]]]

\* a message routed to the queue the consumer reads
LcEnqueue(m, body) ==
  /\ lc.body[m].kind = "none"
  /\ lc' = [lc EXCEPT !.body[m] = body,
                      !.queue = Append(@, [id |-> m, redelivered |-> FALSE])]
  /\ UNCHANGED <<ecVars, prodVars, broker, cm, rs, mc, hs, sn, extVars>>

\* the broker delivers the head of the queue and onMessage runs up to its
\* first suspension (lines 71-84): a body that JSON.parse refuses goes
\* straight to the catch arm (lines 94-98)
LcDeliver ==
  /\ lc.queue # <<>>
  /\ LET d == Head(lc.queue)
         entry == [redelivered |-> d.redelivered, outcome |-> "pending",
                   settle |-> "pending"]
         log == [lc.log EXCEPT ![d.id] = Append(@, entry)]
     IN /\ Len(lc.log[d.id]) < MaxLogDeliveries
        /\ IF lc.body[d.id].kind # "garbage"
           THEN lc' = [lc EXCEPT !.queue = Tail(@),
                                 !.unacked = @ \cup {d},
                                 !.log = log]
           ELSE LET s == LcSettle(d, "parse", Tail(lc.queue), log)
                IN lc' = [lc EXCEPT !.queue = s.queue, !.log = s.log]
  /\ UNCHANGED <<ecVars, prodVars, broker, cm, rs, mc, hs, sn, extVars>>

\* storeLogEvent resolved and onMessage settles the delivery (lines 84-93)
LcStoreReturns(d, outcome, random) ==
  /\ d \in lc.unacked
  /\ LET r == StoreLogEvent(rs, lc.body[d.id], outcome, random)
         s == LcSettle(d, IF r.stored THEN "stored" ELSE "failed",
                       lc.queue, lc.log)
     IN /\ rs' = [data |-> r.data, index |-> r.index]
        /\ lc' = [lc EXCEPT !.unacked = @ \ {d},
                            !.queue = s.queue, !.log = s.log]
  /\ UNCHANGED <<ecVars, prodVars, broker, cm, mc, hs, sn, extVars>>

\* storeLogEvent returned true and the connection was lost before the ack
\* of line 88 reached the broker, which requeues the unacknowledged
\* delivery for the consumer of the restarted service
LcAckLost(d, random) ==
  /\ d \in lc.unacked
  /\ LET r == StoreLogEvent(rs, lc.body[d.id], "ok", random)
     IN /\ r.stored
        /\ rs' = [data |-> r.data, index |-> r.index]
        /\ lc' = [lc EXCEPT
                    !.unacked = @ \ {d},
                    !.queue = <<[id |-> d.id, redelivered |-> TRUE]>> \o @,
                    !.log[d.id] =
                      [@ EXCEPT ![Len(@)] =
                         [@ EXCEPT !.outcome = "stored",
                                   !.settle = "lost"]]]
  /\ UNCHANGED <<ecVars, prodVars, broker, cm, mc, hs, sn, extVars>>

NextLogs ==
  \/ \E m \in LogMsgs, b \in LogBodies : LcEnqueue(m, b)
  \/ LcDeliver
  \/ \E d \in lc.unacked, o \in StoreOutcomes, r \in RandomTokens :
       LcStoreReturns(d, o, r)
  \/ \E d \in lc.unacked, r \in RandomTokens : LcAckLost(d, r)

\* ------------------------------------------------------------------------
\* Messaging RabbitMQConsumerService: registered handlers
\* ------------------------------------------------------------------------

MaxHandlers == 3

\* a MessageHandler either returns or throws when it is called
HandlerKinds == {"returns", "throws"}

\* the queue the service consumes: rabbitmq.queue of the configuration,
\* which is process.env.RABBITMQ_QUEUE or else 'service-b.logging.queue'
QueueNames == {"service-b.logging.queue", "data_service_logs"}

NewMessagingConsumer ==
  [rabbitmqQueue |-> "service-b.logging.queue",
   handlers |-> <<>>, queue |-> <<>>,
   body |-> [m \in Msgs |-> "none"],
   log |-> [m \in Msgs |-> <<>>]]

\* onMessage(handler), lines 52-55: this.messageHandlers.push(handler)
McOnMessage(kind) ==
  /\ Len(mc.handlers) < MaxHandlers
  /\ mc' = [mc EXCEPT !.handlers = Append(@, kind)]
  /\ UNCHANGED <<ecVars, prodVars, broker, cm, lc, rs, hs, sn, extVars>>

\* a message routed to the queue the service consumes
McEnqueue(m, body) ==
  /\ mc.body[m] = "none"
  /\ mc' = [mc EXCEPT !.body[m] = body, !.queue = Append(@, m)]
  /\ UNCHANGED <<ecVars, prodVars, broker, cm, lc, rs, hs, sn, extVars>>

\* messageHandlers.forEach (lines 185-191): every handler is called, in the
\* order of the array, each inside its own try block
McInvoked(handlers) == [i \in 1..Len(handlers) |-> i]

McThrew(handlers) == {i \in 1..Len(handlers) : handlers[i] = "throws"}

\* what the callback does with the message after the forEach: the catch
\* arm of line 188 has absorbed every handler's error, so line 194 is
\* reached and the message is acknowledged; the nack of line 199 is behind
\* the outer catch, which no handler's error reaches
McSettlement(threw) == "ack"

\* the consume callback, lines 162-202, run for the head of the queue; it
\* has no suspension point.  A body that does not parse is only logged
\* (lines 176-183).
McDeliver ==
  /\ mc.queue # <<>>
  /\ LET m == Head(mc.queue)
         threw == McThrew(mc.handlers)
         verdict == McSettlement(threw)
         entry == [invoked |-> McInvoked(mc.handlers), threw |-> threw,
                   settle |-> verdict]
     IN /\ Len(mc.log[m]) < MaxDeliveries
        /\ mc' = [mc EXCEPT !.queue = IF verdict = "ack" THEN Tail(@) ELSE @,
                            !.log[m] = Append(@, entry)]
  /\ UNCHANGED <<ecVars, prodVars, broker, cm, lc, rs, hs, sn, extVars>>

\* the same callback run for the head of the queue of the logs module,
\* when RABBITMQ_QUEUE names that queue (docker-compose.yml, line 21): both
\* consumers of the service are subscribed to it and the broker hands a
\* message to either
McDeliverShared ==
  /\ mc.rabbitmqQueue = "data_service_logs"
  /\ lc.queue # <<>>
  /\ LET d == Head(lc.queue)
         threw == McThrew(mc.handlers)
         entry == [redelivered |-> d.redelivered, outcome |-> "logged",
                   settle |-> McSettlement(threw)]
     IN /\ Len(lc.log[d.id]) < MaxLogDeliveries
        /\ lc' = [lc EXCEPT !.queue = Tail(@),
                            !.log[d.id] = Append(@, entry)]
  /\ UNCHANGED <<ecVars, prodVars, broker, cm, rs, mc, hs, sn, extVars>>

\* publishLogEvent(logData), lines 340-368, as far as the body goes: the
\* timestamp and the correlationId of logData are kept, a missing
\* timestamp is new Date(), a missing correlationId is generated.
\* publishEvent serializes the Date as an ISO string, which
\* storeLogEvent parses back to the same milliseconds.
PublishLogEvent(logData, now, generated) ==
  [kind |-> "object",
   correlationId |-> IF logData.correlationId # 0
                     THEN logData.correlationId ELSE generated,
   timestamp |-> IF logData.timestamp # InvalidDate
                 THEN logData.timestamp ELSE now,
   message |-> logData.message,
   totalCities |-> logData.totalCities]

\* what publishLogEvent is called with
LogEventArgs ==
  [correlationId : {0} \cup CorrelationIds,
   timestamp : Timestamps \cup {InvalidDate},
   message : LogMessages, totalCities : LogMetadata]

\* the producer, connected, publishes a log event and the exchange routes
\* it to the queue bound with the routing key (publishEvent returns true)
PublishLogEventRouted(m, logData, now, generated) ==
  LcEnqueue(m, PublishLogEvent(logData, now, generated))

NextEndToEnd ==
  \/ \E m \in LogMsgs, logData \in LogEventArgs, now \in Timestamps,
        generated \in CorrelationIds :
       PublishLogEventRouted(m, logData, now, generated)
  \/ LcDeliver
  \/ \E d \in lc.unacked, o \in StoreOutcomes, r \in RandomTokens :
       LcStoreReturns(d, o, r)
  \/ McDeliverShared

NextMessaging ==
  \/ \E kind \in HandlerKinds : McOnMessage(kind)
  \/ \E m \in Msgs, b \in BodyKinds : McEnqueue(m, b)
  \/ McDeliver

\* ------------------------------------------------------------------------
\* EventsHealthService
\* ------------------------------------------------------------------------

MaxHsConns == 2

MaxHsTasks == 2

MaxCount == 1

HsConnIds == 1..MaxHsConns

HsTaskIds == 1..MaxHsTasks

Counts == 0..MaxCount

\* this.lastStatus before the first assignment
NoStatus ==
  [status |-> "none", connection |-> FALSE, exchange |-> FALSE,
   queue |-> FALSE, deadLetterQueue |-> FALSE,
   messageCount |-> 0, consumerCount |-> 0, deadLetterCount |-> 0]

SetHealthDown_keepsConnection ==
  [status |-> "down", connection |-> TRUE, exchange |-> FALSE,
   queue |-> FALSE, deadLetterQueue |-> FALSE,
   messageCount |-> 0, consumerCount |-> 0, deadLetterCount |-> 0]

\* the object setHealthDown() assigns, lines 91-111
SetHealthDown ==
  [status |-> "down", connection |-> FALSE, exchange |-> FALSE,
   queue |-> FALSE, deadLetterQueue |-> FALSE,
   messageCount |-> 0, consumerCount |-> 0, deadLetterCount |-> 0]

\* the object checkHealth() assigns after both checkQueue calls, lines 132-151
StatusUp(messageCount, consumerCount, deadLetterCount) ==
  [status |-> "up", connection |-> TRUE, exchange |-> TRUE,
   queue |-> TRUE, deadLetterQueue |-> TRUE,
   messageCount |-> messageCount, consumerCount |-> consumerCount,
   deadLetterCount |-> deadLetterCount]

IdleTask ==
  [pc |-> "idle", caller |-> "none", inCheck |-> FALSE, on |-> 0,
   messageCount |-> 0, consumerCount |-> 0]

\* RABBITMQ_EXCHANGE, RABBITMQ_QUEUE and RABBITMQ_DEAD_LETTER_QUEUE on the
\* broker; the queue is "deadLettered" once EventsConsumer has declared it
\* with its arguments, "plain" when it was declared without
NoEntities ==
  [exchange |-> FALSE, queue |-> "absent", deadLetterQueue |-> FALSE]

\* the service once its constructor has returned: initializeHealth() has
\* called connectRabbitMQ(), which is suspended in amqp.connect
NewHealthService ==
  [connection |-> 0, channel |-> 0, isConnecting |-> TRUE,
   lastStatus |-> NoStatus,
   conns |-> [c \in HsConnIds |-> "unused"],
   chanOpen |-> [c \in HsConnIds |-> FALSE],
   observers |-> {},
   tasks |-> [t \in HsTaskIds |->
                IF t = 1
                THEN [IdleTask EXCEPT !.pc = "connect",
                                      !.caller = "initializeHealth"]
                ELSE IdleTask],
   entities |-> NoEntities,
   ops |-> {},
   returned |-> NoStatus,
   event |-> "none"]

HsAsserts == {"assertExchange", "assertQueue", "assertDeadLetterQueue"}

HsChecks == {"checkQueue", "checkDeadLetterQueue"}

\* a run is over: checkHealth returns this.lastStatus (lines 153 and 157),
\* which getStatus() hands on to its caller (line 168)
HsFinish(h, t, status, event) ==
  [h EXCEPT !.lastStatus = status,
            !.event = event,
            !.returned = IF h.tasks[t].caller = "getStatus" THEN status ELSE @,
            !.tasks[t] = [IdleTask EXCEPT !.pc = "done"]]

\* the catch arm of checkHealth, lines 154-158
HsCheckCatch(h, t) == HsFinish(h, t, SetHealthDown, "checkFailed")

\* checkHealth from line 124 on: without connection or channel it throws,
\* otherwise it calls checkQueue(RABBITMQ_QUEUE) on this.channel
HsProceed(h, t) ==
  IF h.connection = 0 \/ h.channel = 0
  THEN HsCheckCatch(h, t)
  ELSE [h EXCEPT !.tasks[t].pc = "checkQueue", !.tasks[t].on = h.channel]

\* checkHealth up to its first suspension, lines 118-129: it calls
\* connectRabbitMQ() when connection or channel is missing, and that call
\* returns at once while another one is connecting (lines 46-48)
HsEnterCheck(h, t) ==
  LET g == [h EXCEPT !.tasks[t].inCheck = TRUE]
  IN IF g.connection = 0 \/ g.channel = 0
     THEN IF g.isConnecting
          THEN HsProceed(g, t)
          ELSE [g EXCEPT !.isConnecting = TRUE, !.tasks[t].pc = "connect"]
     ELSE HsProceed(g, t)

\* connectRabbitMQ() has returned: initializeHealth goes on to checkHealth
\* (line 35), checkHealth to line 124
HsConnectReturned(h, t) ==
  IF h.tasks[t].inCheck THEN HsProceed(h, t) ELSE HsEnterCheck(h, t)

\* the catch and finally arms of connectRabbitMQ, lines 80-85
HsConnectCatch(h, t) ==
  HsConnectReturned([h EXCEPT !.lastStatus = SetHealthDown,
                              !.isConnecting = FALSE,
                              !.event = "connectFailed"], t)

\* the rejection of the call task t is suspended in
HsReject(h, t) ==
  IF h.tasks[t].pc \in HsChecks
  THEN HsCheckCatch(h, t)
  ELSE HsConnectCatch(h, t)

\* amqplib rejects every call pending on a channel when the channel closes;
\* the continuations run before any other event is handled
RECURSIVE HsRejectAll(_, _)
HsRejectAll(h, pending) ==
  IF pending = {} THEN h
  ELSE LET t == CHOOSE x \in pending : \A y \in pending : x <= y
       IN HsRejectAll(HsReject(h, t), pending \ {t})

HsPendingOn(h, c) ==
  {t \in HsTaskIds :
     /\ h.tasks[t].on = c
     /\ h.tasks[t].pc \in {"createChannel"} \cup HsAsserts \cup HsChecks}

HsFreeTask == CHOOSE t \in HsTaskIds : hs.tasks[t].pc \in {"idle", "done"}

HsStep(h) ==
  /\ hs' = h
  /\ UNCHANGED <<ecVars, prodVars, broker, cm, lc, rs, mc, sn, extVars>>

\* amqp.connect resolves, line 59
HsConnectResolves(t) ==
  /\ hs.tasks[t].pc = "connect"
  /\ \E c \in HsConnIds :
       /\ hs.conns[c] = "unused"
       /\ \A b \in HsConnIds : b < c => hs.conns[b] # "unused"
       /\ HsStep([hs EXCEPT !.conns[c] = "open",
                            !.connection = c,
                            !.tasks[t].pc = "createChannel",
                            !.tasks[t].on = c,
                            !.event = "connected"])

HsConnectRejects(t) ==
  /\ hs.tasks[t].pc = "connect"
  /\ HsStep(HsConnectCatch(hs, t))

\* connection.createChannel() resolves, line 60
HsCreateChannelResolves(t) ==
  /\ hs.tasks[t].pc = "createChannel"
  /\ hs.conns[hs.tasks[t].on] = "open"
  /\ HsStep([hs EXCEPT !.channel = hs.tasks[t].on,
                       !.chanOpen[hs.tasks[t].on] = TRUE,
                       !.tasks[t].pc = "assertExchange",
                       !.event = "channel"])

\* the broker refuses the channel and the connection stays open
HsCreateChannelRejects(t) ==
  /\ hs.tasks[t].pc = "createChannel"
  /\ hs.conns[hs.tasks[t].on] = "open"
  /\ HsStep(HsConnectCatch(hs, t))

\* the entities after an assert the broker accepted: what is missing is
\* created
HsDeclare(entities, statement) ==
  IF statement = "assertExchange" THEN [entities EXCEPT !.exchange = TRUE]
  ELSE IF statement = "assertQueue"
  THEN [entities EXCEPT !.queue = IF @ = "absent" THEN "plain" ELSE @]
  ELSE [entities EXCEPT !.deadLetterQueue = TRUE]

\* assertQueue(RABBITMQ_QUEUE, { durable: true }) is refused with 406 when
\* the queue exists with the arguments EventsConsumer declares
HsAccepts(entities, statement) ==
  statement = "assertQueue" => entities.queue # "deadLettered"

HsAfterAssert(statement) ==
  IF statement = "assertExchange" THEN "assertQueue"
  ELSE IF statement = "assertQueue" THEN "assertDeadLetterQueue"
  ELSE "observe"

\* one of the asserts of lines 63-65 resolves; after the last one the
\* 'error' and 'close' observers are attached (lines 70-78) and
\* connectRabbitMQ returns
HsAssertResolves(t) ==
  LET statement == hs.tasks[t].pc
      c == hs.tasks[t].on
      next == HsAfterAssert(statement)
      h == [hs EXCEPT !.entities = HsDeclare(@, statement),
                      !.ops = @ \cup {[op |-> statement,
                                       inCheck |-> hs.tasks[t].inCheck]},
                      !.event = "declared"]
  IN /\ statement \in HsAsserts
     /\ hs.chanOpen[c]
     /\ HsAccepts(hs.entities, statement)
     /\ HsStep(IF next # "observe"
               THEN [h EXCEPT !.tasks[t].pc = next]
               ELSE HsConnectReturned(
                      [h EXCEPT !.observers = @ \cup {c},
                                !.isConnecting = FALSE], t))

\* the broker refuses the declaration and closes the channel
HsAssertRejects(t) ==
  LET statement == hs.tasks[t].pc
      c == hs.tasks[t].on
      h == [hs EXCEPT !.chanOpen[c] = FALSE,
                      !.ops = @ \cup {[op |-> statement,
                                       inCheck |-> hs.tasks[t].inCheck]}]
  IN /\ statement \in HsAsserts
     /\ hs.chanOpen[c]
     /\ ~HsAccepts(hs.entities, statement)
     /\ HsStep(HsRejectAll(h, HsPendingOn(h, c)))

\* checkQueue(RABBITMQ_QUEUE) resolves, line 128
HsCheckQueueResolves(t, messageCount, consumerCount) ==
  /\ hs.tasks[t].pc = "checkQueue"
  /\ hs.chanOpen[hs.tasks[t].on]
  /\ hs.entities.queue # "absent"
  /\ HsStep([hs EXCEPT !.tasks[t].pc = "checkDeadLetterQueue",
                       !.tasks[t].messageCount = messageCount,
                       !.tasks[t].consumerCount = consumerCount,
                       !.ops = @ \cup {[op |-> "checkQueue",
                                        inCheck |-> TRUE]},
                       !.event = "checked"])

\* checkQueue(RABBITMQ_DEAD_LETTER_QUEUE) resolves, line 129, and the
\* status is assigned
HsCheckDeadLetterQueueResolves(t, deadLetterCount) ==
  /\ hs.tasks[t].pc = "checkDeadLetterQueue"
  /\ hs.chanOpen[hs.tasks[t].on]
  /\ hs.entities.deadLetterQueue
  /\ HsStep(HsFinish([hs EXCEPT !.ops = @ \cup {[op |-> "checkDeadLetterQueue",
                                                 inCheck |-> TRUE]}],
                     t,
                     StatusUp(hs.tasks[t].messageCount,
                              hs.tasks[t].consumerCount, deadLetterCount),
                     "checkOk"))

HsExists(entities, check) ==
  IF check = "checkQueue" THEN entities.queue # "absent"
  ELSE entities.deadLetterQueue

\* a checkQueue call rejects: the channel was closed when it was made, or
\* the queue does not exist and the broker closes the channel with 404
HsCheckRejects(t) ==
  LET check == hs.tasks[t].pc
      c == hs.tasks[t].on
  IN /\ check \in HsChecks
     /\ IF hs.chanOpen[c]
        THEN /\ ~HsExists(hs.entities, check)
             /\ LET h == [hs EXCEPT !.chanOpen[c] = FALSE,
                                    !.ops = @ \cup {[op |-> check,
                                                     inCheck |-> TRUE]}]
                IN HsStep(HsRejectAll(h, HsPendingOn(h, c)))
        ELSE HsStep(HsCheckCatch(hs, t))

\* the connection closes, with or without an error; the observers of lines
\* 70-78 run if they are attached.  An 'error' event on a connection
\* without observer ends the process, so it is no step of the service.
HsConnectionLost(c, withError) ==
  /\ hs.conns[c] = "open"
  /\ withError => c \in hs.observers
  /\ LET h == [hs EXCEPT !.conns[c] = "closed",
                         !.chanOpen[c] = FALSE,
                         !.lastStatus = IF c \in hs.observers
                                        THEN SetHealthDown ELSE @,
                         !.event = IF c \notin hs.observers THEN "unobserved"
                                   ELSE IF withError THEN "connectionError"
                                   ELSE "connectionClose"]
     IN HsStep(HsRejectAll(h, HsPendingOn(h, c)))

HsGetStatus_alwaysChecks(h) == FALSE

\* the test of line 165: getStatus() returns this.lastStatus when it is set
HsGetStatusCached(h) == h.lastStatus.status # "none"

\* getStatus(), lines 164-169, the one caller of checkHealth besides
\* initializeHealth (EventsController, line 21)
HsGetStatus ==
  /\ LET h == [hs EXCEPT !.event = "getStatus"]
     IN IF HsGetStatusCached(hs)
        THEN HsStep([h EXCEPT !.returned = hs.lastStatus])
        ELSE /\ \E t \in HsTaskIds : hs.tasks[t].pc \in {"idle", "done"}
             /\ HsStep(HsEnterCheck(
                  [h EXCEPT !.tasks[HsFreeTask] =
                              [IdleTask EXCEPT !.caller = "getStatus"]],
                  HsFreeTask))

\* EventsConsumer.consumeMessages declares what is missing of the exchange,
\* the dead-letter queue and the main queue, the latter with its arguments
HsConsumerDeclares ==
  /\ hs.entities # [exchange |-> TRUE, queue |-> "deadLettered",
                    deadLetterQueue |-> TRUE]
  /\ hs.entities.queue # "plain" \/ ~hs.entities.exchange
       \/ ~hs.entities.deadLetterQueue
  /\ HsStep([hs EXCEPT !.entities =
               [exchange |-> TRUE,
                queue |-> IF @.queue = "absent" THEN "deadLettered"
                          ELSE @.queue,
                deadLetterQueue |-> TRUE]])

NextHealth ==
  \/ \E t \in HsTaskIds : HsConnectResolves(t)
  \/ \E t \in HsTaskIds : HsConnectRejects(t)
  \/ \E t \in HsTaskIds : HsCreateChannelResolves(t)
  \/ \E t \in HsTaskIds : HsCreateChannelRejects(t)
  \/ \E t \in HsTaskIds : HsAssertResolves(t)
  \/ \E t \in HsTaskIds : HsAssertRejects(t)
  \/ \E t \in HsTaskIds, m \in Counts, n \in Counts :
       HsCheckQueueResolves(t, m, n)
  \/ \E t \in HsTaskIds, n \in Counts : HsCheckDeadLetterQueueResolves(t, n)
  \/ \E t \in HsTaskIds : HsCheckRejects(t)
  \/ \E c \in HsConnIds, e \in BOOLEAN : HsConnectionLost(c, e)
  \/ HsGetStatus
  \/ HsConsumerDeclares

\* ------------------------------------------------------------------------
\* Removal of sensitive data: producer and consumer side
\* ------------------------------------------------------------------------

\* names under which headers arrive
HeaderNames ==
  {"authorization", "Authorization", "cookie", "set-cookie",
   "Proxy-Authorization", "x-request-id"}

\* paths of the string fields of a body: top-level keys, and a key of the
\* object held by the top-level key "user"
BodyPaths ==
  {<<"password">>, <<"token">>, <<"secret">>, <<"accessToken">>,
   <<"username">>, <<"user", "password">>}

ToLowerCase_asIs(name) == name

\* String.prototype.toLowerCase on the names above
ToLowerCase(name) ==
  CASE name = "Authorization" -> "authorization"
    [] name = "Proxy-Authorization" -> "proxy-authorization"
    [] name = "accessToken" -> "accesstoken"
    [] OTHER -> name

\* sensitiveHeaders, line 383
SensitiveHeaders ==
  {"authorization", "cookie", "set-cookie", "proxy-authorization"}

\* sensitiveBodyFields, line 399
SensitiveBodyFields == {"password", "token", "secret"}

\* an Express request: the names of the headers it carries, the type of
\* req.body and, for an object, the paths of its fields.  Every header and
\* field holds a value of its own, written "original" below.
HttpRequests ==
  [headers : SUBSET HeaderNames, bodyType : {"object"},
   body : SUBSET BodyPaths]
  \cup [headers : SUBSET HeaderNames, bodyType : {"string", "absent"},
        body : {{}}]

\* extractHttpRequestData(req), lines 375-418, as JSON.stringify writes it:
\* a header whose lower-cased name is on the list is left out, the others are
\* copied; the body of type object is copied key by key (a nested object
\* by reference) and the listed keys it has itself get the marker; a body
\* of another type is not copied
ExtractHttpRequestData(req) ==
  [headers |-> {[name |-> n, value |-> "original"] :
                  n \in {h \in req.headers :
                           ToLowerCase(h) \notin SensitiveHeaders}},
   body |-> IF req.bodyType = "object"
            THEN {[path |-> p,
                   value |-> IF Len(p) = 1 /\ p[1] \in SensitiveBodyFields
                             THEN "***FILTERED***" ELSE "original"] :
                    p \in req.body}
            ELSE {}]

\* EventType values that normalizeEvent gives a body of their own:
\* requestBody, responseBody, details
EventTypes == {"request", "response", "error"}

\* event data as EventsService.processEvent receives it
EventData ==
  [eventType : EventTypes, headers : SUBSET HeaderNames,
   body : SUBSET BodyPaths]

\* sensitiveFields of sanitizeEvent, line 108
SensitiveFields ==
  {"password", "token", "secret", "key", "apiKey", "credit_card"}

\* key.toLowerCase().includes(sensitiveField.toLowerCase()), line 133, for
\* some field of the list
NamesSensitiveField(key) ==
  ToLowerCase(key) \in {"password", "token", "secret", "accesstoken"}

\* redactSensitiveField for every field of the list, lines 131-139: a
\* string under a key that contains the field gets the marker, an object is
\* searched in turn
RedactSensitiveFields(body) ==
  {[path |-> p,
    value |-> IF NamesSensitiveField(p[Len(p)]) THEN "[REDACTED]"
              ELSE "original"] : p \in body}

\* sanitizeEvent(event), lines 81-123: headers.authorization and
\* headers.cookie get the marker, and the body is searched when the event is
\* a request event with a requestBody
SanitizeEvent(event) ==
  [eventType |-> event.eventType,
   headers |-> {[name |-> n,
                 value |-> IF n \in {"authorization", "cookie"}
                           THEN "[REDACTED]" ELSE "original"] :
                  n \in event.headers},
   body |-> IF event.eventType = "request"
            THEN RedactSensitiveFields(event.body)
            ELSE {[path |-> p, value |-> "original"] : p \in event.body}]

\* normalizeEvent and enrichEvent, lines 146-228, copy headers and body as
\* they are
NormalizeEvent(eventData) == eventData

NoEvents == [side |-> "none"]

\* publishEventWithRequest / publishLogEventWithRequest attach the
\* snapshot of req to the event, which publishEvent serializes
SnPublishWithRequest(req) ==
  /\ sn.side = "none"
  /\ sn' = [side |-> "producer", input |-> req,
            output |-> ExtractHttpRequestData(req)]
  /\ UNCHANGED <<ecVars, prodVars, broker, cm, lc, rs, mc, hs, extVars>>

\* EventsService.processEvent, lines 218-246: what it passes to
\* storeLogEvent as metadata
SnProcessEvent(eventData) ==
  /\ sn.side = "none"
  /\ sn' = [side |-> "consumer", input |-> eventData,
            output |-> SanitizeEvent(NormalizeEvent(eventData))]
  /\ UNCHANGED <<ecVars, prodVars, broker, cm, lc, rs, mc, hs, extVars>>

NextSanitize ==
  \/ \E req \in HttpRequests : SnPublishWithRequest(req)
  \/ \E eventData \in EventData : SnProcessEvent(eventData)

\* ------------------------------------------------------------------------
\* Startup hooks of the broker components: RabbitMQService.onModuleInit,
\* RabbitMQConsumerService.onModuleInit (logs module) and
\* EventsConsumer.onModuleInit
\* ------------------------------------------------------------------------

StartupComponents ==
  {"RabbitMQService", "RabbitMQConsumerService", "EventsConsumer"}

\* the awaited calls of the three hooks
ConnectionCalls ==
  {"createConfirmChannel", "createChannel", "fallbackCreateChannel"}

ChannelCalls ==
  {"setupExchangeAndQueue", "consumeMessages", "checkQueue",
   "assertExchange", "assertQueue", "bindQueue", "consume"}

\* a component before its hook runs.  reachable: the broker accepts
\* connections; queueExists: the queue that checkQueue asks for exists;
\* scheduled counts the setTimeout calls of the hook; down records whether
\* the broker was unreachable when the hook started
NewStartup(component, reachable, queueExists) ==
  [component |-> component, hook |-> "pending", pc |-> "none",
   useConfirmChannel |-> TRUE, reachable |-> reachable,
   queueExists |-> queueExists, connAlive |-> FALSE, chanOpen |-> FALSE,
   observers |-> FALSE, scheduled |-> 0, down |-> FALSE]

\* the hook returns to the framework
SuReturn(s) == [s EXCEPT !.hook = "returned", !.pc = "none"]

\* the hook rejects: the framework's startup is aborted
SuThrow(s) == [s EXCEPT !.hook = "threw", !.pc = "none"]

\* the outer catch of RabbitMQConsumerService.setupRabbitMQ logs and throws
\* again, and onModuleInit awaits it without a try
SetupRabbitMQCatch(s) == SuThrow(s)

\* setTimeout(..., delay), n times
SuSchedule(s, n) == [s EXCEPT !.scheduled = @ + n]

\* the call the hook awaits has resolved
SuResolved(s) ==
  CASE s.component = "RabbitMQService" ->
         CASE s.pc = "connect" ->
                [s EXCEPT !.connAlive = TRUE, !.observers = TRUE,
                          !.pc = IF s.useConfirmChannel
                                 THEN "createConfirmChannel"
                                 ELSE "createChannel"]
           [] s.pc \in ConnectionCalls ->
                [s EXCEPT !.chanOpen = TRUE, !.pc = "setupExchangeAndQueue"]
           [] OTHER -> SuReturn(s)
    [] s.component = "EventsConsumer" ->
         CASE s.pc = "connect" ->
                [s EXCEPT !.connAlive = TRUE, !.pc = "createChannel"]
           [] s.pc = "createChannel" ->
                [s EXCEPT !.chanOpen = TRUE, !.observers = TRUE,
                          !.pc = "consumeMessages"]
           [] OTHER -> SuReturn(s)
    [] OTHER ->
         CASE s.pc = "connect" ->
                [s EXCEPT !.connAlive = TRUE, !.pc = "createChannel"]
           [] s.pc = "createChannel" ->
                [s EXCEPT !.chanOpen = TRUE, !.pc = "checkQueue"]
           [] s.pc = "checkQueue" -> [s EXCEPT !.pc = "consume"]
           [] s.pc = "assertExchange" -> [s EXCEPT !.pc = "assertQueue"]
           [] s.pc = "assertQueue" -> [s EXCEPT !.pc = "bindQueue"]
           [] s.pc = "bindQueue" -> [s EXCEPT !.pc = "consume"]
           [] OTHER -> SuReturn(s)

\* the call the hook awaits has rejected
SuRejected(s) ==
  CASE s.component = "RabbitMQService" ->
         IF s.pc \in {"createConfirmChannel", "createChannel"}
         THEN [s EXCEPT !.pc = "fallbackCreateChannel"]
         ELSE SuReturn(SuSchedule(s, 1))
    [] s.component = "EventsConsumer" ->
         IF s.pc \in {"connect", "createChannel"}
         THEN SuReturn(SuSchedule(s, 2))
         ELSE SuReturn(SuSchedule(s, 1))
    [] OTHER ->
         IF s.pc = "checkQueue"
         THEN [s EXCEPT !.chanOpen = FALSE, !.pc = "assertExchange"]
         ELSE SetupRabbitMQCatch(s)

SuCanResolve(s) ==
  CASE s.pc = "connect" -> s.reachable
    [] s.pc \in ConnectionCalls -> s.connAlive
    [] s.pc = "checkQueue" -> s.connAlive /\ s.chanOpen /\ s.queueExists
    [] OTHER -> s.connAlive /\ s.chanOpen

SuCanReject(s) ==
  CASE s.pc = "connect" -> ~s.reachable
    [] s.pc \in ConnectionCalls -> ~s.connAlive
    [] s.pc = "checkQueue" -> ~(s.connAlive /\ s.chanOpen /\ s.queueExists)
    [] OTHER -> ~(s.connAlive /\ s.chanOpen)

SuOnModuleInit ==
  /\ su.hook = "pending"
  /\ \E confirm \in BOOLEAN :
       su' = [su EXCEPT !.hook = "running", !.pc = "connect",
                        !.useConfirmChannel = confirm,
                        !.down = ~su.reachable]
  /\ UNCHANGED <<ecVars, prodVars, broker, cm, svcVars, dv, destroyed, qd>>

SuCallResolves ==
  /\ su.hook = "running"
  /\ SuCanResolve(su)
  /\ su' = SuResolved(su)
  /\ UNCHANGED <<ecVars, prodVars, broker, cm, svcVars, dv, destroyed, qd>>

SuCallRejects ==
  /\ su.hook = "running"
  /\ SuCanReject(su)
  /\ su' = SuRejected(su)
  /\ UNCHANGED <<ecVars, prodVars, broker, cm, svcVars, dv, destroyed, qd>>

\* the broker becomes unreachable: an open connection is lost, and its
\* 'error' and 'close' observers, if registered, each schedule a reconnect
SuBrokerGoesDown ==
  /\ su.reachable
  /\ su' = IF su.connAlive /\ su.observers
           THEN SuSchedule([su EXCEPT !.reachable = FALSE,
                                      !.connAlive = FALSE,
                                      !.chanOpen = FALSE], 2)
           ELSE [su EXCEPT !.reachable = FALSE, !.connAlive = FALSE,
                           !.chanOpen = FALSE]
  /\ UNCHANGED <<ecVars, prodVars, broker, cm, svcVars, dv, destroyed, qd>>

SuBrokerComesBack ==
  /\ ~su.reachable
  /\ su' = [su EXCEPT !.reachable = TRUE]
  /\ UNCHANGED <<ecVars, prodVars, broker, cm, svcVars, dv, destroyed, qd>>

NextStartup ==
  \/ SuOnModuleInit
  \/ SuCallResolves
  \/ SuCallRejects
  \/ SuBrokerGoesDown
  \/ SuBrokerComesBack

\* ------------------------------------------------------------------------
\* EventsConsumer with EventsService and the store behind it
\* ------------------------------------------------------------------------

\* the log entry EventsService.processEvent builds from the event of
\* message m (lines 231-245): the event carries its own correlationId and a
\* valid timestamp
EventLogEntry(m) ==
  [kind |-> "object", correlationId |-> m, timestamp |-> 0,
   message |-> "City processing completed", totalCities |-> 100]

\* EventsService.processEvent, lines 218-258: the redis keys after the call
\* and the boolean it resolves with; its catch arm turns every error into
\* false, so it never rejects
EventsServiceProcessEvent(store, m, outcome) ==
  StoreLogEvent(store, EventLogEntry(m), outcome, 1)

\* EventsConsumer.processEvent awaits eventsService.processEvent at line
\* 165 and drops the boolean: the promise resolves whether or not the event
\* was stored
ProcessEventResult(success) == "complete"

\* eventsService.processEvent has resolved and the callback settles the
\* delivery (lines 118-121)
EsProcessEventReturns(d, outcome) ==
  /\ d \in ecUnacked
  /\ ecBody[d.id] = "object"
  /\ LET r == EventsServiceProcessEvent(rs, d.id, outcome)
     IN /\ rs' = [data |-> r.data, index |-> r.index]
        /\ ecUnacked' = ecUnacked \ {d}
        /\ BrokerSettle(d, ProcessEventResult(r.stored), ecQueue, ecLog)
  /\ UNCHANGED <<ecBody, prodVars, broker, cm, lc, mc, hs, sn, extVars>>

NextStorage ==
  \/ \E m \in Msgs, b \in BodyKinds : Enqueue(m, b)
  \/ Deliver
  \/ \E d \in ecUnacked, o \in StoreOutcomes : EsProcessEventReturns(d, o)
  \/ \E d \in ecUnacked : ProcessEventThrows(d)

\* ------------------------------------------------------------------------
\* RabbitMQService: dead-lettering in the topology it declares
\* ------------------------------------------------------------------------

\* values of RABBITMQ_ROUTING_KEY as dot-separated words, the default first
RoutingKeys ==
  {<<"data", "service", "logs">>, <<"data", "service", "#">>, <<"*">>}

DeadLetterRoutingKey_plain(routingKey) == routingKey

\* 'x-dead-letter-routing-key': `${this.routingKey}.dead`, line 150
DeadLetterRoutingKey(routingKey) == Append(routingKey, "dead")

\* third argument of the bindQueue of lines 166-170
DeadLetterBindingKey(routingKey) == Append(routingKey, "dead")

\* the arguments the main queue was declared with (lines 148-151)
DeadLetterArguments(arguments, routingKey) ==
  IF arguments = "deadLetter"
  THEN [exchange |-> "dlx", routingKey |-> DeadLetterRoutingKey(routingKey)]
  ELSE [exchange |-> "none", routingKey |-> <<>>]

\* the key of a binding the setup made (lines 166-170 and 176)
BindingKey(b, routingKey) ==
  IF b.queue = "dead" THEN DeadLetterBindingKey(routingKey) ELSE routingKey

\* a topic exchange routes on a binding whose pattern matches the
\* routing key word by word: * is one word, # any number of words
RECURSIVE TopicMatches(_, _)
TopicMatches(pattern, key) ==
  IF pattern = <<>> THEN key = <<>>
  ELSE IF Head(pattern) = "#"
  THEN \/ TopicMatches(Tail(pattern), key)
       \/ key # <<>> /\ TopicMatches(pattern, Tail(key))
  ELSE /\ key # <<>>
       /\ Head(pattern) = "*" \/ Head(pattern) = Head(key)
       /\ TopicMatches(Tail(pattern), Tail(key))

\* the queues a message arrives in when queue q rejects it without requeue:
\* the broker publishes it to q's dead-letter exchange, if that exists, with
\* q's dead-letter routing key
DeadLetterTargets(t, q, routingKey) ==
  LET dl == DeadLetterArguments(q.arguments, routingKey)
  IN {t.bindings[i].queue : i \in
        {j \in 1..Len(t.bindings) :
           /\ dl.exchange \in t.exchanges
           /\ t.bindings[j].exchange = dl.exchange
           /\ TopicMatches(BindingKey(t.bindings[j], routingKey),
                           dl.routingKey)}}

\* ------------------------------------------------------------------------
\* EventsConsumer: the channel of a delivery and the channel of its
\* settlement
\* ------------------------------------------------------------------------

NoDeliveries == [inflight |-> {}, settled |-> {}]

\* `this.channel` as the callback reads it when it settles (lines 121 and
\* 127): the field, not the channel the message came on
SettlementChannel(m, d) == m.channel

\* the broker delivers message id on the channel that carries the consumer
\* and the callback runs up to `await this.processEvent` (lines 108-118)
DvDeliver(id) ==
  /\ cm.consumerOn # 0
  /\ cm.conns[cm.consumerOn] = "open"
  /\ \A d \in dv.inflight \cup dv.settled : d.id # id
  /\ dv' = [dv EXCEPT !.inflight = @ \cup {[id |-> id, on |-> cm.consumerOn]}]
  /\ UNCHANGED <<ecVars, prodVars, broker, cm, svcVars, su, destroyed, qd>>

\* processEvent has settled and the callback calls this.channel.ack(msg) or
\* this.channel.reject(msg, !redelivered)
DvCallbackEnds(d, settle) ==
  /\ d \in dv.inflight
  /\ dv' = [inflight |-> dv.inflight \ {d},
            settled |-> dv.settled \cup
                          {[id |-> d.id, on |-> d.on, settle |-> settle,
                            sentOn |-> SettlementChannel(cm, d)]}]
  /\ UNCHANGED <<ecVars, prodVars, broker, cm, svcVars, su, destroyed, qd>>

NextChannels ==
  \/ CmOnModuleInit
  \/ CmTimerFires
  \/ CmConnectResolves
  \/ CmConnectRejects
  \/ \E c \in CmConnIds : CmCreateChannelResolves(c)
  \/ \E c \in CmConnIds : CmCreateChannelRejects(c)
  \/ \E c \in CmConnIds, e \in BOOLEAN : CmConnectionLost(c, e)
  \/ CmSetup
  \/ CmSetupTimerFires
  \/ \E id \in Msgs : DvDeliver(id)
  \/ \E d \in dv.inflight, s \in {"ack", "reject"} : DvCallbackEnds(d, s)

\* ------------------------------------------------------------------------
\* RabbitMQService: close() at service stop
\* ------------------------------------------------------------------------

\* the 'close' observer of lines 88-92 calls reconnect() whoever closed the
\* connection, close() included
CloseObserverReconnects(byClose) == TRUE

\* onModuleDestroy(), lines 68-75, and close(), lines 213-225:
\* this.channel.close(), which rejects on a channel that is closed already
\* and so ends close() in its catch arm, then this.connection.close(), after
\* which amqplib emits 'close' on the connection
OnModuleDestroy ==
  /\ started /\ ~destroyed
  /\ destroyed' = TRUE
  /\ LET closesChannel == channel # 0 /\ ChanUsable(channel)
         reachesConnection ==
           /\ channel = 0 \/ closesChannel
           /\ connection # 0 /\ conns[connection] = "open"
         closed == {ch \in ChanIds :
                      \/ closesChannel /\ ch = channel
                      \/ reachesConnection /\ chans[ch].conn = connection}
         st == ReconnectTimes(IF reachesConnection
                                 /\ CloseObserverReconnects(TRUE)
                              THEN 1 ELSE 0)
     IN /\ chans' = [ch \in ChanIds |->
                       IF ch \in closed THEN [chans[ch] EXCEPT !.open = FALSE]
                       ELSE chans[ch]]
        /\ ChannelsClosed({ch \in closed : chans[ch].open})
        /\ conns' = IF reachesConnection
                    THEN [conns EXCEPT ![connection] = "closed"]
                    ELSE conns
        /\ isConnected' = IF reachesConnection THEN FALSE ELSE isConnected
        /\ reconnectAttempts' = st.attempts
        /\ timers' = st.timers
        /\ schedule' = st.schedule
  /\ UNCHANGED <<started, useConfirmChannel, connection, channel,
                 isConfirmChannel, connecting, runs, topology, ecVars,
                 broker, cm, svcVars, su, dv, qd>>

NextShutdown ==
  \/ OnModuleInit
  \/ TimerFires
  \/ ConnectResolves(MaxSessions)
  \/ ConnectRejects
  \/ \E r \in runs : CreateChannelResolves(r)
  \/ \E r \in runs : CreateChannelRejects(r)
  \/ \E r \in runs : FallbackResolves(r)
  \/ \E r \in runs : FallbackRejects(r)
  \/ \E r \in runs : SetupResolves(r)
  \/ \E r \in runs : SetupRejects(r)
  \/ \E c \in ConnIds, e \in BOOLEAN : ConnectionLost(c, e)
  \/ \E ch \in ChanIds : ChannelError(ch)
  \/ OnModuleDestroy

\* ------------------------------------------------------------------------
\* Queue declarations of the components at startup
\* ------------------------------------------------------------------------

MaxDeclareAttempts == 2

Declarers ==
  {"RabbitMQService", "RabbitMQConsumerService", "EventsHealthService",
   "EventsConsumer"}

NoArguments == {}

\* queueOptions.arguments of RabbitMQService, part_002 lines 148-151, with
\* the default exchange and routing key
ProducerQueueArguments ==
  {[name |-> "x-dead-letter-exchange", value |-> "data_service_events.dlx"],
   [name |-> "x-dead-letter-routing-key", value |-> "data.service.logs.dead"]}

\* queueOptions.arguments of EventsConsumer, part_010 lines 89-95
EventsConsumerQueueArguments ==
  {[name |-> "x-dead-letter-exchange", value |-> "service-b.logging.dlx"],
   [name |-> "x-message-ttl", value |-> "86400000"]}

\* the queue declarations of each component in the order of its code;
\* checkFirst: the queue is declared only if checkQueue does not find it
QueueDeclarations(component) ==
  CASE component = "RabbitMQService" ->
         <<[queue |-> "data_service_logs.dead", arguments |-> NoArguments,
            checkFirst |-> FALSE],
           [queue |-> "data_service_logs",
            arguments |-> ProducerQueueArguments, checkFirst |-> FALSE]>>
    [] component = "RabbitMQConsumerService" ->
         <<[queue |-> "data_service_logs", arguments |-> NoArguments,
            checkFirst |-> TRUE]>>
    [] component = "EventsHealthService" ->
         <<[queue |-> "service-b.logging.queue", arguments |-> NoArguments,
            checkFirst |-> FALSE],
           [queue |-> "service-b.logging.dlq", arguments |-> NoArguments,
            checkFirst |-> FALSE]>>
    [] OTHER ->
         <<[queue |-> "service-b.logging.dlq", arguments |-> NoArguments,
            checkFirst |-> FALSE],
           [queue |-> "service-b.logging.queue",
            arguments |-> EventsConsumerQueueArguments,
            checkFirst |-> FALSE]>>

\* no queue exists and no component has declared anything.  pos: how many
\* of its declarations a component has behind it; rejected: how often the
\* broker has refused one of them
NoDeclarations ==
  [queues |-> {}, pos |-> [c \in Declarers |-> 0],
   rejected |-> [c \in Declarers |-> 0]]

QdExists(queues, name) == \E q \in queues : q.name = name

\* the broker accepts the declaration: the queue is new, or it is declared
\* with the arguments it has (406 PRECONDITION_FAILED otherwise); a
\* component that checks first does not declare a queue that exists
QdAccepts(queues, d) ==
  \/ d.checkFirst /\ QdExists(queues, d.queue)
  \/ \A q \in queues : q.name = d.queue => q.arguments = d.arguments

QdApply(queues, d) ==
  IF QdExists(queues, d.queue) THEN queues
  ELSE queues \cup {[name |-> d.queue, arguments |-> d.arguments]}

\* the next queue declaration of component c reaches the broker.  A refused
\* declaration closes the channel and ends the component's setup, which a
\* later attempt starts from its first statement
QdDeclares(c) ==
  /\ qd.pos[c] < Len(QueueDeclarations(c))
  /\ LET d == QueueDeclarations(c)[qd.pos[c] + 1]
     IN IF QdAccepts(qd.queues, d)
        THEN qd' = [qd EXCEPT !.queues = QdApply(@, d), !.pos[c] = @ + 1]
        ELSE /\ qd.rejected[c] < MaxDeclareAttempts
             /\ qd' = [qd EXCEPT !.pos[c] = 0, !.rejected[c] = @ + 1]
  /\ UNCHANGED <<ecVars, prodVars, broker, cm, svcVars, su, dv, destroyed>>

\* a component that has finished is started again (a reconnect, a restart
\* of its service)
QdRestarts(c) ==
  /\ qd.pos[c] = Len(QueueDeclarations(c))
  /\ qd' = [qd EXCEPT !.pos[c] = 0]
  /\ UNCHANGED <<ecVars, prodVars, broker, cm, svcVars, su, dv, destroyed>>

NextDeclarations ==
  \/ \E c \in Declarers : QdDeclares(c)
  \/ \E c \in Declarers : QdRestarts(c)

\* ------------------------------------------------------------------------
\* EventsHealthService: checkHealth() called again
\* ------------------------------------------------------------------------

\* the connection the service holds is closed and the status is 'down'
HsLost(h) ==
  /\ h.connection # 0
  /\ h.conns[h.connection] = "closed"
  /\ h.lastStatus.status = "down"

\* checkHealth(), lines 117-158, called from outside the service: it runs
\* up to its first suspension
HsCheckHealth ==
  /\ \E t \in HsTaskIds : hs.tasks[t].pc \in {"idle", "done"}
  /\ HsStep(HsEnterCheck(
       [hs EXCEPT !.event = "checkHealth",
                  !.tasks[HsFreeTask] =
                    [IdleTask EXCEPT !.caller = "checkHealth"]],
       HsFreeTask))

NextProbe ==
  \/ \E t \in HsTaskIds : HsConnectResolves(t)
  \/ \E t \in HsTaskIds : HsConnectRejects(t)
  \/ \E t \in HsTaskIds : HsCreateChannelResolves(t)
  \/ \E t \in HsTaskIds : HsCreateChannelRejects(t)
  \/ \E t \in HsTaskIds : HsAssertResolves(t)
  \/ \E t \in HsTaskIds : HsAssertRejects(t)
  \/ \E t \in HsTaskIds, m \in Counts, n \in Counts :
       HsCheckQueueResolves(t, m, n)
  \/ \E t \in HsTaskIds, n \in Counts : HsCheckDeadLetterQueueResolves(t, n)
  \/ \E t \in HsTaskIds : HsCheckRejects(t)
  \/ \E c \in HsConnIds, e \in BOOLEAN : HsConnectionLost(c, e)
  \/ HsGetStatus
  \/ HsConsumerDeclares
  \/ HsCheckHealth

\* ------------------------------------------------------------------------
\* Services of the logger side at rest
\* ------------------------------------------------------------------------

InitSvc ==
  /\ lc = NewLogsConsumer
  /\ rs = NewStore
  /\ mc = NewMessagingConsumer
  /\ hs = NewHealthService
  /\ sn = NoEvents

\* no startup hook is observed and no component declares queues
NoStartup == [hook |-> "none"]

NoDeclarers == [queues |-> {}]

InitExt ==
  /\ su = NoStartup
  /\ dv = NoDeliveries
  /\ destroyed = FALSE
  /\ qd = NoDeclarers

InitAux == InitSvc /\ InitExt

\* ------------------------------------------------------------------------
\* Specifications
\* ------------------------------------------------------------------------

InitProducer ==
  /\ started = FALSE
  /\ useConfirmChannel \in BOOLEAN
  /\ connection = 0
  /\ channel = 0
  /\ isConnected = FALSE
  /\ isConfirmChannel = FALSE
  /\ reconnectAttempts = 0
  /\ timers = 0
  /\ schedule = <<>>
  /\ connecting = 0
  /\ runs = {}
  /\ conns = [c \in ConnIds |-> "unused"]
  /\ chans = [ch \in ChanIds |-> NoChan]
  /\ unconfirmed = [ch \in ChanIds |-> <<>>]
  /\ calls = [k \in CallIds |-> IdleCall]
  /\ msgs = [k \in CallIds |-> NoMsg]

Init ==
  /\ InitConsumer /\ InitProducer
  /\ topology = NoTopology
  /\ broker = "up"
  /\ cm = NewManager("EventsConsumer")
  /\ InitAux

\* either consumer service
InitManagers ==
  /\ InitConsumer /\ InitProducer
  /\ topology = NoTopology
  /\ broker = "up"
  /\ cm \in {NewManager(kind) : kind \in ConsumerKinds}
  /\ InitAux

SpecManagers == InitManagers /\ [][NextManagers]_vars

\* one broker component from construction, with the broker reachable or not
InitStartup ==
  /\ InitConsumer /\ InitProducer
  /\ topology = NoTopology
  /\ broker = "up"
  /\ cm = NewManager("EventsConsumer")
  /\ InitSvc
  /\ su \in {NewStartup(component, reachable, queueExists) :
               component \in StartupComponents, reachable \in BOOLEAN,
               queueExists \in BOOLEAN}
  /\ dv = NoDeliveries
  /\ destroyed = FALSE
  /\ qd = NoDeclarers

SpecStartup == InitStartup /\ [][NextStartup]_vars

\* EventsConsumer with the store its events go to
SpecStorage == Init /\ [][NextStorage]_vars

\* EventsConsumer's connection manager together with its deliveries
SpecChannels == Init /\ [][NextChannels]_vars

\* the producer's connection manager from service start to service stop
SpecShutdown == Init /\ [][NextShutdown]_vars

\* the four components' queue declarations in every order
InitDeclarations ==
  /\ InitConsumer /\ InitProducer
  /\ topology = NoTopology
  /\ broker = "up"
  /\ cm = NewManager("EventsConsumer")
  /\ InitSvc
  /\ su = NoStartup
  /\ dv = NoDeliveries
  /\ destroyed = FALSE
  /\ qd = NoDeclarations

SpecDeclarations == InitDeclarations /\ [][NextDeclarations]_vars

\* EventsHealthService with checkHealth() called at any time
SpecProbe == Init /\ [][NextProbe]_vars

\* the logs module alone: its queue, its consumer and its store
SpecLogs == Init /\ [][NextLogs]_vars

\* the messaging consumer alone
SpecMessaging == Init /\ [][NextMessaging]_vars

\* producer, queue, both consumers of the logger service and the store;
\* RABBITMQ_QUEUE is set or not
InitEndToEnd ==
  /\ InitConsumer /\ InitProducer
  /\ topology = NoTopology
  /\ broker = "up"
  /\ cm = NewManager("EventsConsumer")
  /\ lc = NewLogsConsumer
  /\ rs = NewStore
  /\ mc \in {[NewMessagingConsumer EXCEPT !.rabbitmqQueue = q] :
               q \in QueueNames}
  /\ hs = NewHealthService
  /\ sn = NoEvents
  /\ InitExt

SpecEndToEnd == InitEndToEnd /\ [][NextEndToEnd]_vars

\* the health service alone, with the broker entities it looks at
SpecHealth == Init /\ [][NextHealth]_vars

\* one request snapshot or one processed event
SpecSanitize == Init /\ [][NextSanitize]_vars

\* envelopes and log data the callers of the producer specification pass
Envelope(level, correlationId) ==
  [service |-> "data-service-a", level |-> level, message |-> "text",
   correlationId |-> correlationId]

LogData(level, correlationId) ==
  [level |-> level, message |-> "text", correlationId |-> correlationId]

Levels == {"info", "verbose"}

\* calls are numbered in the order in which they are made
NextCall(k) == \A j \in 1..(k - 1) : calls[j].pc # "idle"

ConnectionManager ==
  \/ OnModuleInit
  \/ TimerFires
  \/ ConnectResolves(MaxConns)
  \/ ConnectRejects
  \/ \E r \in runs : CreateChannelResolves(r)
  \/ \E r \in runs : CreateChannelRejects(r)
  \/ \E r \in runs : FallbackResolves(r)
  \/ \E r \in runs : FallbackRejects(r)
  \/ \E r \in runs : SetupResolves(r)
  \/ \E r \in runs : SetupRejects(r)
  \/ \E c \in ConnIds, e \in BOOLEAN : ConnectionLost(c, e)
  \/ \E ch \in ChanIds : ChannelError(ch)

Broker ==
  \/ \E m \in CallIds : BrokerRoutes(m)
  \/ \E m \in CallIds : BrokerRefuses(m)
  \/ \E ch \in ChanIds : ConfirmArrives(ch)

\* the whole producer: every connection event, the broker, and the four
\* public publish methods
NextProducer ==
  \/ ConnectionManager
  \/ Broker
  \/ \E k \in 1..MaxCalls, l \in Levels :
       /\ NextCall(k)
       /\ publishEvent(k, Envelope(l, Undefined), Undefined)
  \/ \E k \in 1..MaxCalls, l \in Levels :
       /\ NextCall(k)
       /\ publishLogEvent(k, LogData(l, Undefined))
  \/ \E k \in 1..MaxCalls, l \in Levels :
       /\ NextCall(k)
       /\ publishEventWithRequest(k, Envelope(l, Undefined), "plain", Undefined)
  \/ \E k \in 1..MaxCalls, l \in Levels :
       /\ NextCall(k)
       /\ publishLogEventWithRequest(k, LogData(l, Undefined), "plain")

\* a service that is not part of the deployment at hand
NotRunning == "none"

\* the producer on its own: neither the logger service nor a consumer runs
InitProducerAlone ==
  /\ InitConsumer /\ InitProducer
  /\ topology = NoTopology
  /\ broker = "up"
  /\ cm = NotRunning
  /\ lc = NotRunning /\ rs = NotRunning /\ mc = NotRunning
  /\ hs = NotRunning /\ sn = NotRunning
  /\ su = NotRunning /\ dv = NotRunning /\ qd = NotRunning
  /\ destroyed = FALSE

SpecProducer == InitProducerAlone /\ [][NextProducer]_vars

\* the connection manager alone, the broker accepting up to MaxSessions
\* connections
NextReconnect ==
  \/ OnModuleInit
  \/ TimerFires
  \/ ConnectResolves(MaxSessions)
  \/ ConnectRejects
  \/ \E r \in runs : CreateChannelResolves(r)
  \/ \E r \in runs : CreateChannelRejects(r)
  \/ \E r \in runs : FallbackResolves(r)
  \/ \E r \in runs : FallbackRejects(r)
  \/ \E r \in runs : SetupResolves(r)
  \/ \E r \in runs : SetupRejects(r)
  \/ \E c \in ConnIds, e \in BOOLEAN : ConnectionLost(c, e)
  \/ \E ch \in ChanIds : ChannelError(ch)

SpecReconnect == Init /\ [][NextReconnect]_vars

\* the connection manager with setupExchangeAndQueue() followed statement by
\* statement, so that the callbacks of other connect() runs and of the
\* connections come between its statements; the broker, when reached,
\* grants every channel asked of it
NextSetup ==
  \/ OnModuleInit
  \/ TimerFires
  \/ ConnectResolves(MaxOverlap)
  \/ ConnectRejects
  \/ \E r \in runs : CreateChannelResolves(r)
  \/ \E r \in runs : SetupStatementResolves(r)
  \/ \E r \in runs : SetupStatementRejects(r)
  \/ \E c \in ConnIds, e \in BOOLEAN : ConnectionLost(c, e)
  \/ \E ch \in ChanIds : ChannelError(ch)

SpecSetup == Init /\ [][NextSetup]_vars

\* the producer started against a broker on which the main queue exists
\* with other arguments than the producer declares
InitLegacy ==
  /\ InitConsumer /\ InitProducer
  /\ topology = LegacyTopology
  /\ broker = "up"
  /\ cm = NewManager("EventsConsumer")
  /\ InitAux

SpecLegacy == InitLegacy /\ [][NextSetup]_vars

\* C19: when the main queue exists with incompatible arguments, the refused
\* declaration does not end the connect() run: the run goes on to the next
\* statement of the setup (and so to isConnected = true).
C19_RefusedDeclareIsSurvived ==
  [][\A r \in runs :
       (/\ r.pc = "setup"
        /\ SetupStatements[r.step] = "assertQueue"
        /\ ChanUsable(r.on)
        /\ ~Accepts(topology, "assertQueue")
        /\ r \notin runs')
       => \E q \in runs' : q.conn = r.conn /\ q.step = r.step + 1]_vars

\* An outage of the broker and the recovery from it.  While the broker is
\* down amqp.connect rejects and open connections drop; once it is back it
\* stays, and what is asked of it succeeds: only what was lost in the outage
\* still fails.
BrokerGoesDown ==
  /\ broker = "up" /\ started
  /\ broker' = "down"
  /\ UNCHANGED <<ecVars, prodVars, cm, auxVars>>

\* fewer than maxReconnectAttempts attempts have failed: a scheduled attempt
\* is still to run, or the counter allows another
AttemptsLeft ==
  \/ timers > 0
  \/ connecting > 0
  \/ reconnectAttempts < MaxReconnectAttempts

BrokerComesBack ==
  /\ broker = "down"
  /\ AttemptsLeft
  /\ broker' = "back"
  /\ UNCHANGED <<ecVars, prodVars, cm, auxVars>>

ConnectAccepted == broker # "down" /\ ConnectResolves(MaxOverlap)

ConnectRefused == broker = "down" /\ ConnectRejects

ConnectionDrops(c, withError) == broker = "down" /\ ConnectionLost(c, withError)

ChannelRefused(r) == conns[r.conn] # "open" /\ CreateChannelRejects(r)

FallbackRefused(r) == conns[r.target] # "open" /\ FallbackRejects(r)

SetupFails(r) == ~ChanUsable(channel) /\ SetupRejects(r)

NextRecovery ==
  \/ OnModuleInit
  \/ BrokerGoesDown
  \/ BrokerComesBack
  \/ TimerFires
  \/ ConnectAccepted
  \/ ConnectRefused
  \/ \E c \in ConnIds, e \in BOOLEAN : ConnectionDrops(c, e)
  \/ \E r \in runs : CreateChannelResolves(r)
  \/ \E r \in runs : ChannelRefused(r)
  \/ \E r \in runs : FallbackResolves(r)
  \/ \E r \in runs : FallbackRefused(r)
  \/ \E r \in runs : SetupResolves(r)
  \/ \E r \in runs : SetupFails(r)

\* timers fire and the promises of amqplib settle
RecoveryFairness ==
  /\ WF_vars(TimerFires)
  /\ WF_vars(ConnectAccepted)
  /\ WF_vars(ConnectRefused)
  /\ WF_vars(\E r \in runs : CreateChannelResolves(r))
  /\ WF_vars(\E r \in runs : ChannelRefused(r))
  /\ WF_vars(\E r \in runs : FallbackResolves(r))
  /\ WF_vars(\E r \in runs : FallbackRefused(r))
  /\ WF_vars(\E r \in runs : SetupResolves(r))
  /\ WF_vars(\E r \in runs : SetupFails(r))

SpecRecovery == Init /\ [][NextRecovery]_vars /\ RecoveryFairness

\* C15: when the connection was lost in an outage and the broker is back
\* for good before maxReconnectAttempts attempts have failed, the producer
\* is connected again at some later time.
C15_EventuallyReconnected ==
  <>(broker = "back") => <>(broker = "back" /\ isConnected)

C15_Witness ==
  /\ broker = "back" /\ isConnected
  /\ \E c \in ConnIds : conns[c] = "closed"
  /\ conns[connection] = "open" /\ ChanUsable(channel)

\* C16: once a reconnect has succeeded no reconnect timer scheduled before
\* it is left pending, and none fires a further connect().
C16_SuccessCancelsPendingRetries ==
  /\ isConnected => timers = 0
  /\ isConnected => connecting = 0

\* nothing of the consumer service is pending
CmQuiescent ==
  /\ cm.timers = 0 /\ cm.connecting = 0 /\ cm.creating = {}
  /\ cm.setup \in {"done", "failed"}

\* C17: after a connection of a consumer service was lost and a reconnect
\* has succeeded, consume is issued again on the new channel (so that what
\* is published afterwards reaches the callback): when nothing is pending
\* any more, the stored channel carries the consumer.
C17_ConsumeReissued ==
  (CmQuiescent /\ CmChanUsable(cm) /\ cm.channel > 1)
    => cm.consumerOn = cm.channel

\* C18: the consumer services delay their k-th consecutive reconnect
\* attempt by min(base * 2^(k-1), 30 s), each delay twice the one before up
\* to the cap, and schedule nothing after the configured maximum of
\* consecutive failed attempts.
C18_ConsumerBackoff ==
  [][/\ \A k \in 2..Len(cm'.schedule) :
          cm'.schedule[k] = Min(2 * cm'.schedule[k - 1], MAX_RECONNECT_DELAY)
     /\ cm'.failed >= MaxReconnectAttempts => cm'.timers <= cm.timers]_vars

\* setupExchangeAndQueue() has run to its end on some channel
SetUp == \E ch \in ChanIds : chans[ch].done = AllStatements

NoDuplicateBinding(t) ==
  \A i, j \in 1..Len(t.bindings) : i # j => t.bindings[i] # t.bindings[j]

C14_ConnectedAfterSetupOnStoredChannel ==
  [][(~isConnected /\ isConnected') =>
       /\ ChanUsable(channel)'
       /\ chans'[channel'].done = AllStatements]_vars

\* overlapping publishEvent calls during the life of the connection that
\* onModuleInit opens: a run shorter than the first reconnect delay
\* (reconnectDelayBase, 1 s by default), so that no reconnect timer fires
FirstConnection ==
  \/ OnModuleInit
  \/ ConnectResolves(MaxConns)
  \/ ConnectRejects
  \/ \E r \in runs : CreateChannelResolves(r)
  \/ \E r \in runs : CreateChannelRejects(r)
  \/ \E r \in runs : FallbackResolves(r)
  \/ \E r \in runs : FallbackRejects(r)
  \/ \E r \in runs : SetupResolves(r)
  \/ \E r \in runs : SetupRejects(r)
  \/ \E c \in ConnIds, e \in BOOLEAN : ConnectionLost(c, e)
  \/ \E ch \in ChanIds : ChannelError(ch)

NextConfirms ==
  \/ FirstConnection
  \/ Broker
  \/ \E k \in 1..MaxInFlight, l \in Levels :
       /\ NextCall(k)
       /\ publishEvent(k, Envelope(l, Undefined), Undefined)

SpecConfirms == Init /\ [][NextConfirms]_vars

\* the envelopes of the four public methods over every shape of the
\* caller's correlation ids, during the life of the first connection
CallerIds == {Undefined, EmptyString, Id("caller", 1)}

CallerArgs == {Undefined, EmptyString, Id("caller", 2)}

NextEnvelope ==
  \/ FirstConnection
  \/ Broker
  \/ \E k \in 1..MaxCalls, f \in CallerIds, a \in CallerArgs :
       /\ NextCall(k)
       /\ publishEvent(k, Envelope("info", f), a)
  \/ \E k \in 1..MaxCalls, f \in CallerIds :
       /\ NextCall(k)
       /\ publishLogEvent(k, LogData("info", f))
  \/ \E k \in 1..MaxCalls, f \in CallerIds, a \in CallerArgs, q \in Requests :
       /\ NextCall(k)
       /\ publishEventWithRequest(k, Envelope("info", f), q, a)
  \/ \E k \in 1..MaxCalls, f \in CallerIds, q \in Requests :
       /\ NextCall(k)
       /\ publishLogEventWithRequest(k, LogData("info", f), q)

SpecEnvelope == Init /\ [][NextEnvelope]_vars

\* ------------------------------------------------------------------------
\* Properties of the producer
\* ------------------------------------------------------------------------

\* the envelope has its required fields and its level is one of the enum
WellFormed(e) ==
  /\ e.service # ""
  /\ e.level \in {"debug", "info", "warn", "error"}
  /\ e.message # ""

\* C4: a publish call with a valid event made while isConnected is false
\* returns false at once: it never waits for the broker, never calls
\* channel.publish and puts no message on the wire.
C4_DisconnectedPublishReturnsFalse ==
  \A k \in CallIds :
    (calls[k].pc # "idle" /\ ~calls[k].connectedAtCall
       /\ WellFormed(calls[k].envelope)) =>
      /\ calls[k].pc = "done"
      /\ calls[k].result = "false"
      /\ ~calls[k].published
      /\ msgs[k].st = "none"

\* a valid event was refused after the connection had been opened and lost,
\* with the reconnect attempts used up
C4_Witness ==
  \E k \in CallIds :
    /\ calls[k].pc = "done" /\ ~calls[k].connectedAtCall
    /\ WellFormed(calls[k].envelope)
    /\ calls[k].result = "false"
    /\ channel # 0
    /\ reconnectAttempts = MaxReconnectAttempts

\* C5: no call of the publish family throws or rejects: a call that has
\* returned has returned true or false, and every failure (validation, not
\* connected, closed channel, full write buffer, nack, channel closed during
\* the confirm wait) has returned false.
C5_PublishNeverThrows ==
  \A k \in CallIds :
    /\ calls[k].result \in {"none", "true", "false"}
    /\ calls[k].pc = "done" => calls[k].result \in {"true", "false"}
    /\ calls[k].failure # "none" =>
         calls[k].pc = "done" /\ calls[k].result = "false"

\* channel.publish threw on a closed channel and the call returned false
C5_Witness ==
  \E k \in CallIds :
    calls[k].failure = "closedChannel" /\ calls[k].result = "false"

\* C6: a publish call whose envelope fails validation returns false in the
\* step that makes it, calls no channel method and changes neither the
\* connection state (isConnected, reconnectAttempts, timers, channel, ...)
\* nor the broker's view, whether the producer is connected or not.
C6_InvalidEnvelopeNoIO ==
  [][\A k \in CallIds :
       (calls[k].pc = "idle" /\ calls'[k].pc # "idle"
          /\ ~WellFormed(calls'[k].envelope)) =>
         /\ calls'[k].pc = "done"
         /\ calls'[k].result = "false"
         /\ ~calls'[k].published
         /\ msgs' = msgs
         /\ unconfirmed' = unconfirmed
         /\ UNCHANGED connVars]_vars

\* an invalid envelope was refused while the producer was connected
C6_Witness ==
  \E k \in CallIds :
    /\ calls[k].pc = "done" /\ ~WellFormed(calls[k].envelope)
    /\ calls[k].connectedAtCall
    /\ calls[k].result = "false"

\* C7: on a confirm channel a call returns true only once the broker has
\* acked its own message, and a call whose message the broker nacked has
\* returned false; on a regular channel a call never waits and returns true
\* when channel.publish returned true.  Checked with calls overlapping.
C7_ConfirmBeforeTrue ==
  \A k \in CallIds :
    /\ (calls[k].confirmMode /\ calls[k].result = "true") =>
         msgs[k].confirm = "ack"
    /\ msgs[k].confirm = "nack" =>
         calls[k].pc = "done" /\ calls[k].result = "false"
    /\ (calls[k].pc # "idle" /\ ~calls[k].confirmMode) =>
         /\ calls[k].pc = "done"
         /\ calls[k].localOk => calls[k].result = "true"

\* two calls wait on the same confirm channel, the later one for both
\* messages
C7_Witness ==
  /\ calls[1].pc = "confirm"
  /\ calls[2].pc = "confirm"
  /\ calls[2].awaiting = {1, 2}

\* C21: when createConfirmChannel() failed and the fallback channel is the
\* stored one, isConfirmChannel is false, isConnected is true only after the
\* topology setup on it, and a call that published on it has returned
\* without waiting for a confirm, true when channel.publish returned true.
C21_FallbackToRegularChannel ==
  useConfirmChannel =>
    /\ (channel # 0 /\ chans[channel].kind = "regular") =>
         /\ ~isConfirmChannel
         /\ isConnected => chans[channel].done = AllStatements
    /\ \A k \in CallIds :
         (msgs[k].st # "none" /\ chans[msgs[k].chan].kind = "regular") =>
           /\ calls[k].pc = "done"
           /\ msgs[k].confirm = "none"
           /\ calls[k].localOk => calls[k].result = "true"

C21_Witness ==
  /\ useConfirmChannel /\ isConnected /\ ~isConfirmChannel
  /\ ChanUsable(channel) /\ chans[channel].kind = "regular"
  /\ \E k \in CallIds :
       /\ msgs[k].chan = channel /\ msgs[k].st = "queued"
       /\ calls[k].pc = "done" /\ calls[k].result = "true"

\* C8: a call that returned false did not publish: its message is not in
\* the main queue.
C8_FalseMeansNotPublished ==
  \A k \in CallIds :
    (calls[k].pc = "done" /\ calls[k].result = "false") =>
      msgs[k].st # "queued"

\* what EventsConsumer.processEvent reads as event.correlationId (line 156)
ObservedCorrelationId(m) == ReadField(msgs[m].body, "correlationId")

\* C9: the correlationId the consumer reads from the body of a delivered
\* message is an id the caller supplied, or, when the caller supplied none,
\* a generated corr-<digits>-<token>.
C9_ConsumerSeesCorrelationId ==
  \A m \in CallIds :
    msgs[m].st = "queued" =>
      IF msgs[m].callerIds = {}
      THEN ObservedCorrelationId(m).kind = "corr"
      ELSE ObservedCorrelationId(m) \in msgs[m].callerIds

\* C10: the correlationId property of a published message is publishEvent's
\* explicit argument if one is given, otherwise the envelope's own field if
\* it has one, otherwise an id generated during the call; it is never empty
\* or undefined.
C10_CorrelationIdPriority ==
  \A m \in CallIds :
    msgs[m].st # "none" =>
      LET c == msgs[m].correlationId IN
      /\ c.kind \notin {"undefined", "empty"}
      /\ IF msgs[m].arg.kind \notin {"undefined", "empty"}
         THEN c = msgs[m].arg
         ELSE IF msgs[m].field.kind \notin {"undefined", "empty"}
         THEN c = msgs[m].field
         ELSE c.kind \in {"corr", "msgid"} /\ c.n = m

\* a message published with both the argument and the field set carries the
\* argument
C10_Witness ==
  \E m \in CallIds :
    /\ msgs[m].st # "none"
    /\ msgs[m].arg = Id("caller", 2)
    /\ msgs[m].field = Id("caller", 1)
    /\ msgs[m].correlationId = Id("caller", 2)

\* ------------------------------------------------------------------------
\* Properties of the producer's connection manager
\* ------------------------------------------------------------------------

\* C11: the k-th delay that reconnect() schedules since the last successful
\* connect (or since the start) is min(reconnectDelayBase * 2^(k-1), 30000)
\* ms, whatever events called reconnect(): a rejected connect, a failed
\* setup, a 'close', or an 'error' followed by a 'close'.
C11_BackoffDelays ==
  \A k \in 1..Len(schedule) :
    schedule[k] = Min(ReconnectDelayBase * 2 ^ (k - 1), 30000)

\* one loss of an open connection has fired both observers: two timers were
\* scheduled at once, the second with the capped delay
C11_Witness ==
  /\ \E c \in ConnIds : conns[c] = "closed"
  /\ Len(schedule) = 2
  /\ timers = 2
  /\ schedule[2] = 30000

\* C12 (as amended): reconnectAttempts stays within 0..maxReconnectAttempts,
\* it decreases only to 0 and only in the step in which a connect() run
\* succeeds and sets isConnected, and no timer is scheduled while it equals
\* maxReconnectAttempts.
C12_AttemptsBounded ==
  [][/\ reconnectAttempts' \in 0..MaxReconnectAttempts
     /\ reconnectAttempts' < reconnectAttempts =>
          reconnectAttempts' = 0 /\ isConnected'
     /\ reconnectAttempts = MaxReconnectAttempts => timers' <= timers]_vars

\* the manager has given up: the counter is at its maximum and neither a
\* timer nor a connect() run is left
C12_Witness ==
  /\ reconnectAttempts = MaxReconnectAttempts
  /\ timers = 0 /\ connecting = 0 /\ runs = {}
  /\ ~isConnected

\* C12 (as stated): once reconnectAttempts equals maxReconnectAttempts the
\* manager has given up for good: from then on the counter stays at the
\* maximum and no reconnect timer is scheduled.
C12_GivesUpForGood ==
  [][reconnectAttempts = MaxReconnectAttempts =>
       /\ reconnectAttempts' = MaxReconnectAttempts
       /\ timers' <= timers]_vars

\* the reconnect attempts are used up: the counter is at its maximum, no
\* timer is pending and no connect() run is under way
Exhausted ==
  /\ reconnectAttempts = MaxReconnectAttempts
  /\ timers = 0 /\ connecting = 0 /\ runs = {}
  /\ ~isConnected

\* C13: once the reconnect attempts are used up the producer stays in that
\* state whatever happens next (isConnected stays false, nothing is
\* scheduled), and every publish call made in it returns false in the step
\* that makes it, without throwing.
C13_ExhaustedStaysDown ==
  [][Exhausted =>
       /\ Exhausted'
       /\ \A k \in CallIds :
            (calls[k].pc = "idle" /\ calls'[k].pc # "idle") =>
              calls'[k].pc = "done" /\ calls'[k].result = "false"]_vars

\* a valid event was refused for want of a connection, and the attempts
\* are used up with a connection once opened
C13_Witness ==
  /\ Exhausted
  /\ channel # 0
  /\ \E k \in CallIds :
       calls[k].failure = "notConnected" /\ calls[k].result = "false"

\* ------------------------------------------------------------------------
\* Properties of the logs module
\* ------------------------------------------------------------------------

LcFailed(entry) == entry.outcome \in {"parse", "failed"}

\* C22: a message whose handling by the logs consumer failed (its body does
\* not parse, or storeLogEvent returned false) is requeued when that
\* delivery was the first one and is not requeued when it was a redelivery,
\* so that no message is delivered more than twice.
C22_RetriedExactlyOnce ==
  \A m \in LogMsgs :
    /\ \A i \in 1..Len(lc.log[m]) :
         LcFailed(lc.log[m][i]) =>
           (lc.log[m][i].settle = "requeue" <=> ~lc.log[m][i].redelivered)
    /\ (\A i \in 1..Len(lc.log[m]) :
          LcFailed(lc.log[m][i]) \/ lc.log[m][i].outcome = "pending")
         => Len(lc.log[m]) <= 2

\* the entries getLogsByDay returns for the day of logEvent that hold
\* logEvent
EntriesOf(logEvent) ==
  {e \in GetLogsByDay(rs, DateStr(logEvent.timestamp)) :
     e.value = logEvent}

LcInQueue(m) == \E i \in 1..Len(lc.queue) : lc.queue[i].id = m

LcUnsettled(m) == \E d \in lc.unacked : d.id = m

\* C30: a log event published without a correlation id that has left the
\* queue for good (it is neither waiting nor being handled) was stored
\* under the day of its timestamp: getLogsByDay for that day returns
\* exactly one entry for it, with the published message and totalCities.
C30_EndToEnd ==
  \A m \in LogMsgs :
    (/\ lc.body[m].kind = "object"
     /\ ~LcInQueue(m) /\ ~LcUnsettled(m)
     /\ \A n \in LogMsgs \ {m} : lc.body[n] # lc.body[m])
      => /\ Cardinality(EntriesOf(lc.body[m])) = 1
         /\ \A e \in EntriesOf(lc.body[m]) :
              /\ e.value.message = "City processing completed"
              /\ e.value.totalCities = 100

\* C29: an event that storeLogEvent was given more than once, because its
\* message was delivered again, is returned by getLogsByDay for its day no
\* more than once.
C29_StoreIsIdempotent ==
  \A m \in LogMsgs :
    (/\ lc.body[m].kind = "object"
     /\ lc.body[m].timestamp # InvalidDate
     /\ \A n \in LogMsgs \ {m} : lc.body[n] # lc.body[m])
      => Cardinality(EntriesOf(lc.body[m])) <= 1

\* C23: for every delivery to the messaging consumer, all registered
\* handlers were invoked in the order of their registration, and the
\* message was negatively acknowledged if one of them threw, acknowledged
\* only if none did.
C23_HandlerFailureNacks ==
  \A m \in Msgs : \A i \in 1..Len(mc.log[m]) :
    LET entry == mc.log[m][i]
    IN /\ \A j \in 1..Len(entry.invoked) : entry.invoked[j] = j
       /\ entry.threw # {} => entry.settle = "nack"
       /\ entry.threw = {} => entry.settle = "ack"

\* ------------------------------------------------------------------------
\* Properties of EventsHealthService
\* ------------------------------------------------------------------------

\* C24: every broker operation that a run of checkHealth has performed,
\* the connecting it does itself included, is a passive check of the main
\* queue or of the dead-letter queue; no entity is declared.
C24_OnlyPassiveChecks ==
  \A o \in hs.ops : o.inCheck => o.op \in HsChecks

HsConsistent(st) ==
  /\ st.status = "down" =>
       /\ ~st.connection /\ ~st.exchange /\ ~st.queue /\ ~st.deadLetterQueue
       /\ st.messageCount = 0 /\ st.consumerCount = 0
       /\ st.deadLetterCount = 0
  /\ st.status = "up" =>
       st.connection /\ st.exchange /\ st.queue /\ st.deadLetterQueue

\* C25: the cached status is consistent (down: the four booleans false and
\* the three counts 0; up: the four booleans true), it is down right after
\* a failed check, a failed connect and an observed 'error' or 'close'
\* event, and it is down whenever the connection the service holds is
\* closed.
C25_StatusConsistent ==
  /\ HsConsistent(hs.lastStatus)
  /\ hs.event \in {"checkFailed", "connectFailed", "connectionError",
                   "connectionClose"} => hs.lastStatus.status = "down"
  /\ (hs.connection # 0 /\ hs.conns[hs.connection] = "closed") =>
       hs.lastStatus.status = "down"

\* a status that was up and handed out is down after the connection closed
C25_Witness ==
  /\ hs.returned.status = "up"
  /\ hs.event = "connectionClose"
  /\ hs.lastStatus = SetHealthDown
  /\ hs.conns[hs.connection] = "closed"

\* C26: a call of getStatus() made when a status has been computed returns
\* that status, leaves it as it is, starts no check and performs no broker
\* operation; a call made before any status was computed runs checkHealth.
C26_GetStatusReturnsCached ==
  [][HsGetStatus =>
       IF hs.lastStatus.status # "none"
       THEN /\ hs'.returned = hs.lastStatus
            /\ hs' = [hs EXCEPT !.returned = hs'.returned,
                                !.event = hs'.event]
       ELSE \/ hs'.lastStatus.status # "none"
            \/ \E t \in HsTaskIds :
                 /\ hs'.tasks[t].caller = "getStatus"
                 /\ hs'.tasks[t].pc \in {"connect", "checkQueue"}]_vars

\* getStatus() has handed out the cached status
C26_Witness ==
  /\ hs.event = "getStatus"
  /\ hs.returned.status = "up"
  /\ hs.returned = hs.lastStatus
  /\ \A t \in HsTaskIds : hs.tasks[t].caller # "getStatus"

\* ------------------------------------------------------------------------
\* Properties of the removal of sensitive data
\* ------------------------------------------------------------------------

\* the serialized output still holds the value the input had in this place
HeaderKept(output, name) ==
  [name |-> name, value |-> "original"] \in output.headers

FieldKept(output, path) ==
  [path |-> path, value |-> "original"] \in output.body

\* the header names that are authorization, cookie, set-cookie or
\* proxy-authorization up to the case of their letters
CredentialHeader(name) ==
  name \in {"authorization", "Authorization", "cookie", "set-cookie",
            "Proxy-Authorization"}

\* C27: the snapshot the producer attaches holds the original value of no
\* header whose name is, in any case, authorization, cookie, set-cookie or
\* proxy-authorization, and of no field password, token or secret of the
\* request body.
C27_ProducerRemovesSensitiveData ==
  sn.side = "producer" =>
    /\ \A n \in sn.input.headers :
         CredentialHeader(n) => ~HeaderKept(sn.output, n)
    /\ \A f \in {"password", "token", "secret"} :
         ~FieldKept(sn.output, <<f>>)

\* a request with all six headers and a body with password, token, secret
\* and username: the snapshot keeps x-request-id and username
C27_Witness ==
  /\ sn.side = "producer"
  /\ sn.input.headers = HeaderNames
  /\ sn.input.bodyType = "object"
  /\ {<<"password">>, <<"token">>, <<"secret">>, <<"username">>}
       \subseteq sn.input.body
  /\ HeaderKept(sn.output, "x-request-id")
  /\ FieldKept(sn.output, <<"username">>)
  /\ [path |-> <<"password">>, value |-> "***FILTERED***"] \in sn.output.body

\* C28: what processEvent hands to storage holds the original value of no
\* header named authorization, cookie, set-cookie or proxy-authorization
\* and of no body field named password, token or secret, whatever the type
\* of the event.
C28_ConsumerRedactsSensitiveData ==
  sn.side = "consumer" =>
    /\ \A n \in sn.input.headers :
         CredentialHeader(n) => ~HeaderKept(sn.output, n)
    /\ \A p \in sn.input.body :
         p[Len(p)] \in {"password", "token", "secret"}
           => ~FieldKept(sn.output, p)

\* C31: if the broker is unreachable when a service starts, the startup
\* hook of each broker component completes without throwing.
C31_StartupNeverThrows ==
  su.down => su.hook # "threw"

\* an entry for the event of message m is in the store
EsStored(m) ==
  \E e \in GetLogsByDay(rs, DateStr(EventLogEntry(m).timestamp)) :
    e.value = EventLogEntry(m)

\* C32: EventsConsumer acknowledges a message only if the event was stored:
\* when the storage write fails the message is rejected, so no message is
\* removed from the queue by an ack without having been stored.
C32_AckOnlyIfStored ==
  \A m \in Msgs :
    (\E i \in 1..Len(ecLog[m]) : ecLog[m][i].settle = "ack") => EsStored(m)

\* the settlement the per-message state machine prescribes for a delivery
\* whose callback ended with outcome
PrescribedSettlement(outcome, redelivered) ==
  CASE outcome = "complete" -> "ack"
    [] outcome = "parse" -> "deadletter"
    [] OTHER -> IF redelivered THEN "deadletter" ELSE "requeue"

\* C33: for every delivery whose callback has ended exactly one settlement
\* was issued, and it is the one of the per-message state machine: ack after
\* processing, dead-lettering after a parse failure, and after a processing
\* failure requeue on the first delivery and dead-lettering on a redelivery.
C33_OneSettlementPerDelivery ==
  \A m \in Msgs : \A i \in 1..Len(ecLog[m]) :
    LET e == ecLog[m][i]
    IN IF e.outcome = "pending"
       THEN e.settle = "pending" /\ Unsettled(m)
       ELSE e.settle = PrescribedSettlement(e.outcome, e.redelivered)

\* C34: after the producer's topology setup with dead-lettering enabled the
\* main queue's dead-letter exchange is the declared exchange
\* `{exchange}.dlx` and its dead-letter routing key is one on which
\* `{queue}.dead` is bound to that exchange: a message the main queue rejects
\* without requeue arrives in `{queue}.dead`.
C34_DeadLetterReachesDlq ==
  (SetUp /\ enableDeadLetter) =>
    /\ "dlx" \in topology.exchanges
    /\ \E q \in topology.queues : q.name = "main"
    /\ \A q \in topology.queues, routingKey \in RoutingKeys :
         q.name = "main" =>
           DeadLetterTargets(topology, q, routingKey) = {"dead"}

\* the setup has completed on the stored channel and left the main queue
\* with its dead-letter arguments and the binding of the dead-letter queue
C34_Witness ==
  /\ SetUp /\ isConnected /\ ChanUsable(channel)
  /\ [name |-> "main", arguments |-> "deadLetter"] \in topology.queues
  /\ HasBinding(topology, [queue |-> "dead", exchange |-> "dlx"])

\* C35: EventsConsumer settles a message on the channel on which it was
\* delivered: when this.channel is replaced while the callback of a message
\* is still running, the settlement is not sent on the new channel.
C35_SettledOnDeliveryChannel ==
  \A s \in dv.settled : s.sentOn = s.on

\* the connections of the producer that are open at the broker
OpenConnections == {c \in ConnIds : conns[c] = "open"}

\* C36: in the producer at most one reconnect timer is pending, at most one
\* connect() is in progress and at most one broker connection is open: one
\* connection failure starts one reconnect attempt, and a connection whose
\* topology setup failed is not left open.
C36_SingleReconnect ==
  /\ timers <= 1
  /\ connecting + Cardinality(runs) <= 1
  /\ Cardinality(OpenConnections) <= 1

\* C37: after the producer's close() has run the manager stays torn down:
\* the 'close' event of its own connection schedules no reconnect, no
\* connection is opened afterwards, and publishEvent returns false (the
\* connected check fails) from then on.
C37_StaysTornDown ==
  [][destroyed' =>
       /\ timers' <= timers
       /\ \A c \in ConnIds : conns'[c] = "open" => conns[c] = "open"
       /\ ~ConnectedCheck']_vars

\* C38: the components that declare the same queue declare it with the
\* same arguments, so under every order in which their startup declarations
\* reach the broker none is rejected as incompatible.
C38_NoDeclarationRejected ==
  \A c \in Declarers : qd.rejected[c] = 0

\* C39: the health probe recovers: after the service's connection was lost
\* and the status set to 'down', a checkHealth() re-establishes the
\* connection (it starts a connect, whose success leads to status 'up'), so
\* that getStatus() no longer reports 'down'.
C39_ProbeReconnects ==
  [][(HsCheckHealth /\ HsLost(hs) /\ ~hs.isConnecting) =>
       \E t \in HsTaskIds :
         hs.tasks[t].pc # "connect" /\ hs'.tasks[t].pc = "connect"]_vars

SpecConsumer == Init /\ [][NextConsumer]_vars

====
